---------------------------- MODULE Spec2Model ----------------------------
(***************************************************************************)
(* A model of the Kakarot RPC adapter's client, core/src/client/mod.rs:    *)
(* StarknetClientImpl and its implementation of the StarknetClient trait.  *)
(*                                                                         *)
(* The client is stateless: every request is a chain of awaits on the      *)
(* remote Starknet node.  A request is modelled from the call of the       *)
(* operation to its return; one action is the code that runs between two   *)
(* suspension points, with the remote call that ends it and the node's     *)
(* answer, which is drawn from a small set of possible answers.  `log`     *)
(* records the remote calls in the order they are issued.                  *)
(*                                                                         *)
(* Field elements are naturals.  TLC's integers are 32 bits wide, so the   *)
(* 32-"byte" big-endian form of a field element is its 32 digits in base   *)
(* ByteBase: the low 20 digits of the samples below differ from the whole  *)
(* value, as the low 20 bytes of a 251-bit field element do.               *)
(***************************************************************************)
EXTENDS Integers, Sequences, FiniteSets, TLC

\* ------------------------------------------------------------------ bounds

\* The base of one digit of the big-endian form of a field element.
ByteBase == 2

\* The longest list of transactions (or of transaction hashes) in a block.
MaxTxs == 2

\* The longest return payload (segment 6) of an execute_at_address result.
MaxReturnData == 3

\* ------------------------------------------------------- Result and Option

Ok(v) == [tag |-> "Ok", val |-> v]

Err(kind, msg) == [tag |-> "Err", kind |-> kind, msg |-> msg]

IsOk(r) == r.tag = "Ok"

IsErr(r) == r.tag = "Err"

\* Option<T>: None is the empty sequence, Some(v) the sequence of v alone.
None == <<>>

Some(v) == <<v>>

IsSome(o) == o # <<>>

\* The `?` on a failed remote call: JsonRpcClientError converts into RequestError.
RequestError == Err("RequestError", "transport")

NoResult == [tag |-> "Pending"]

\* ------------------------------------------------------------------- codec

RECURSIVE Digits(_, _)
\* The n low digits of f, most significant first.
Digits(f, n) ==
    IF n = 0 THEN <<>> ELSE Append(Digits(f \div ByteBase, n - 1), f % ByteBase)

\* FieldElement::to_bytes_be: the 32-byte big-endian form.
ToBytesBE(f) == Digits(f, 32)

\* &bytes[12..32] copied into an Address / H160.
Low20(bytes) == SubSeq(bytes, 13, 32)

\* PrimitiveH256::from_slice(&felt.to_bytes_be()).
FeltToH256(f) == ToBytesBE(f)

ZeroH256 == [i \in 1..32 |-> 0]

ZeroAddress == [i \in 1..20 |-> 0]

\* helpers::starknet_address_to_ethereum_address: the low 20 bytes of the
\* 32-byte big-endian form of the Starknet address.
starknet_address_to_ethereum_address(f) == Low20(ToBytesBE(f))

\* helpers::felt_to_u256: the same number as a U256.
felt_to_u256(f) == f

\* helpers::felt_option_to_u256 on signature.get(i): a missing slot is an error.
felt_option_to_u256(o) ==
    IF IsSome(o) THEN Ok(felt_to_u256(o[1]))
    ELSE Err("OtherError", "missing signature slot")

\* Vec::get(i), i counted from 0.
Get(s, i) == IF i < Len(s) THEN Some(s[i + 1]) ELSE None

\* --------------------------------------------------------------- constants

\* constants::KAKAROT_CONTRACT_ACCOUNT_CLASS_HASH, as a field element.
KAKAROT_CONTRACT_ACCOUNT_CLASS_HASH == 3145731

\* constants::KAKAROT_MAIN_CONTRACT_ADDRESS, as a field element.
KAKAROT_MAIN_CONTRACT_ADDRESS == 5242884

\* constants::CHAIN_ID.
CHAIN_ID == 1263227476

\* StarknetBlockId: a tag, a number or a hash; `value` is 0 for a tag.
BlockIdOf(tag, value) == [tag |-> tag, value |-> value]

\* BlockId::Tag(BlockTag::Latest).
Latest == BlockIdOf("Latest", 0)

\* A remote call as the log records it, with the node's answer.  `selector` is
\* the entry point of a JsonRpcClient::call and "" for the other methods; `arg`
\* is the contract address, or the transaction hash, the call is about.  The
\* calldata is empty: `calldata: vec![]`, or a method that has none.
RpcCall(method, block_id, arg, selector, answer) ==
    [method |-> method, block_id |-> block_id, arg |-> arg, selector |-> selector,
     calldata |-> <<>>, answer |-> answer]

\* JsonRpcClient::call(FunctionCall {contract_address, entry_point_selector,
\* calldata}, block_id), with the node's answer.
FunctionCall(contract_address, entry_point_selector, calldata, block_id, answer) ==
    [method |-> "call", block_id |-> block_id, arg |-> contract_address,
     selector |-> entry_point_selector, calldata |-> calldata, answer |-> answer]

\* constants::selectors::GET_EVM_ADDRESS.
GET_EVM_ADDRESS == "get_evm_address"

\* ----------------------------------------------------------------- samples

\* Starknet addresses of contracts: one below 2^20, one with high digits set.
StarknetAddresses == {5, 1048585}

\* Class hashes the node may report or a deploy may carry: Kakarot's, and one
\* that differs from it only above the low 20 digits.
ClassHashes == {KAKAROT_CONTRACT_ACCOUNT_CLASS_HASH, 1048579}

\* Signatures: too short for (r, s, v), and long enough.
Signatures == {<<11, 12>>, <<21, 22, 23>>}

\* Signatures of other lengths: none, one slot, four slots.
OtherSignatures == {<<>>, <<31>>, <<41, 42, 43, 44>>}

Kinds == {"InvokeV0", "InvokeV1", "L1Handler", "Declare", "Deploy", "DeployAccount"}

\* A lookup of the class hash for a Deploy too.
RemoteKinds_WithDeploy == {"InvokeV0", "InvokeV1", "L1Handler", "Declare", "Deploy"}

\* The kinds whose class hash is resolved from the node.
RemoteKinds == {"InvokeV0", "InvokeV1", "L1Handler", "Declare"}

\* The kinds that carry a signature.
SignedKinds == {"InvokeV0", "InvokeV1", "Declare", "DeployAccount"}

KindIndex(k) ==
    CASE k = "InvokeV0" -> 0 [] k = "InvokeV1" -> 1 [] k = "L1Handler" -> 2
      [] k = "Declare" -> 3 [] k = "Deploy" -> 4 [] k = "DeployAccount" -> 5

\* A Starknet transaction.  `address` is contract_address (InvokeV0,
\* L1Handler) or sender_address (InvokeV1, Declare); `class_hash` is the one
\* a Deploy or DeployAccount carries.  A field a kind does not have is 0 / <<>>.
\* Every sample has its own transaction hash.
MkTx(k, a, sig, ch) ==
    [kind |-> k,
     transaction_hash |-> 1048576 * (1 + KindIndex(k)) + 64 * Len(sig) + 8 * (a % 8) + (ch \div 1048576),
     address |-> a,
     signature |-> sig,
     nonce |-> 1 + KindIndex(k),
     class_hash |-> ch]

TxPool ==
    {MkTx(k, a, sig, 0) : k \in {"InvokeV0", "InvokeV1", "Declare"},
                          a \in StarknetAddresses, sig \in Signatures}
    \cup {MkTx("L1Handler", a, <<>>, 0) : a \in StarknetAddresses}
    \cup {MkTx("Deploy", 0, <<>>, ch) : ch \in ClassHashes}
    \cup {MkTx("DeployAccount", 0, sig, ch) : sig \in Signatures, ch \in ClassHashes}
    \cup {MkTx(k, 5, sig, 0) : k \in {"InvokeV0", "InvokeV1", "Declare"},
                               sig \in OtherSignatures}
    \cup {MkTx("DeployAccount", 0, sig, KAKAROT_CONTRACT_ACCOUNT_CLASS_HASH) :
             sig \in {<<>>, <<31>>}}

RECURSIVE SeqsUpTo(_, _)
\* The sequences over S of length at most n.
SeqsUpTo(S, n) ==
    IF n = 0 THEN {<<>>}
    ELSE LET shorter == SeqsUpTo(S, n - 1)
         IN  shorter \cup {Append(s, x) : s \in {t \in shorter : Len(t) = n - 1}, x \in S}

\* What JsonRpcClient::get_class_hash_at may answer.
ClassHashResponses == {RequestError} \cup {Ok(ch) : ch \in ClassHashes}

\* What JsonRpcClient::call may answer: a transport error, or a list of field
\* elements (empty, one element, two elements with high digits in the first).
CallResponses == {RequestError, Ok(<<>>), Ok(<<7>>), Ok(<<2097163, 7>>)}

\* The block position a transaction is translated at: (block_hash, block_number).
BlockPositions == {<<None, None>>, <<Some(FeltToH256(1048677)), Some(9)>>}

\* ------------------------------------------------- transaction translator

\* EtherTransaction::default(): every Option is None, every number zero.
DefaultEtherTransaction ==
    [hash |-> ZeroH256, nonce |-> 0, block_hash |-> None, block_number |-> None,
     from |-> ZeroAddress, to |-> None, value |-> 0, gas_price |-> None, gas |-> 0,
     r |-> 0, s |-> 0, v |-> 0, chain_id |-> None, standard_v |-> 0,
     creates |-> None, public_key |-> None, access_list |-> None,
     transaction_type |-> None]

\* r, s, v with a missing slot read as zero.
WithSignature_ZeroFill(e, sig) ==
    Ok([e EXCEPT !.r = IF Len(sig) >= 1 THEN sig[1] ELSE 0,
                 !.s = IF Len(sig) >= 2 THEN sig[2] ELSE 0,
                 !.v = IF Len(sig) >= 3 THEN sig[3] ELSE 0])

\* r, s, v from signature.get(0), get(1), get(2), each with `?`.
WithSignature(e, sig) ==
    LET r == felt_option_to_u256(Get(sig, 0))
        s == felt_option_to_u256(Get(sig, 1))
        v == felt_option_to_u256(Get(sig, 2))
    IN  IF IsErr(r) THEN r
        ELSE IF IsErr(s) THEN s
        ELSE IF IsErr(v) THEN v
        ELSE Ok([e EXCEPT !.r = r.val, !.s = s.val, !.v = v.val])

\* The InvokeTransaction::V0 arm, after the class hash has been resolved.
PopulateInvokeV0(t, bh, bn) ==
    LET e == [DefaultEtherTransaction EXCEPT
                !.hash = FeltToH256(t.transaction_hash),
                !.nonce = felt_to_u256(t.nonce),
                !.from = starknet_address_to_ethereum_address(t.address),
                !.gas_price = None]
        signed == WithSignature(e, t.signature)
    IN  IF IsErr(signed) THEN signed
        ELSE Ok([signed.val EXCEPT
                   !.to = None, !.value = 100, !.gas = 100,
                   !.chain_id = Some(CHAIN_ID), !.standard_v = 0,
                   !.creates = None, !.public_key = None,
                   !.block_hash = bh, !.block_number = bn])

\* The InvokeTransaction::V1 arm, after the class hash has been resolved.
PopulateInvokeV1(t, bh, bn) ==
    LET e == [DefaultEtherTransaction EXCEPT
                !.hash = FeltToH256(t.transaction_hash),
                !.nonce = felt_to_u256(t.nonce),
                !.from = starknet_address_to_ethereum_address(t.address),
                !.gas_price = None]
        signed == WithSignature(e, t.signature)
    IN  IF IsErr(signed) THEN signed
        ELSE Ok([signed.val EXCEPT
                   !.to = None, !.value = 100, !.gas = 100,
                   !.chain_id = Some(CHAIN_ID), !.standard_v = 0,
                   !.creates = None, !.public_key = None,
                   !.access_list = None, !.transaction_type = None,
                   !.block_hash = bh, !.block_number = bn])

\* An L1Handler arm that truncates the contract address, as the Invoke arms do.
PopulateL1Handler_Truncated(t, from, bh, bn) ==
    Ok([DefaultEtherTransaction EXCEPT
          !.hash = FeltToH256(t.transaction_hash),
          !.nonce = t.nonce,
          !.from = starknet_address_to_ethereum_address(t.address),
          !.gas_price = None, !.to = None, !.value = 0, !.gas = 0,
          !.chain_id = Some(CHAIN_ID), !.creates = None, !.public_key = None,
          !.block_hash = bh, !.block_number = bn])

\* The L1Handler arm, after the class hash and the EVM address (`from`) have
\* been resolved.
PopulateL1Handler(t, from, bh, bn) ==
    Ok([DefaultEtherTransaction EXCEPT
          !.hash = FeltToH256(t.transaction_hash),
          !.nonce = t.nonce,
          !.from = from,
          !.gas_price = None, !.to = None, !.value = 0, !.gas = 0,
          !.chain_id = Some(CHAIN_ID), !.creates = None, !.public_key = None,
          !.block_hash = bh, !.block_number = bn])

\* The Declare arm, after the class hash has been resolved.
PopulateDeclare(t, bh, bn) ==
    LET e == [DefaultEtherTransaction EXCEPT
                !.hash = FeltToH256(t.transaction_hash),
                !.nonce = felt_to_u256(t.nonce),
                !.from = starknet_address_to_ethereum_address(t.address),
                !.gas_price = None]
        signed == WithSignature(e, t.signature)
    IN  IF IsErr(signed) THEN signed
        ELSE Ok([signed.val EXCEPT
                   !.to = None, !.value = 0, !.gas = 0,
                   !.chain_id = Some(CHAIN_ID), !.standard_v = 0,
                   !.public_key = None,
                   !.block_hash = bh, !.block_number = bn])

\* The Deploy arm.
PopulateDeploy(t, bh, bn) ==
    Ok([DefaultEtherTransaction EXCEPT
          !.hash = FeltToH256(t.transaction_hash),
          !.gas_price = None, !.creates = None, !.public_key = None, !.to = None,
          !.block_hash = bh, !.block_number = bn])

\* The DeployAccount arm.
PopulateDeployAccount(t, bh, bn) ==
    LET e == [DefaultEtherTransaction EXCEPT
                !.hash = FeltToH256(t.transaction_hash),
                !.nonce = felt_to_u256(t.nonce),
                !.gas_price = None]
        signed == WithSignature(e, t.signature)
    IN  IF IsErr(signed) THEN signed
        ELSE Ok([signed.val EXCEPT
                   !.to = None, !.gas = 0,
                   !.chain_id = Some(CHAIN_ID), !.standard_v = 0,
                   !.public_key = None,
                   !.block_hash = bh, !.block_number = bn])

\* The `to` of a transaction that passes the gate: the low 20 bytes of the
\* field element parsed into kakarot_starknet_address.
KakarotTo ==
    LET kakarot_starknet_address == KAKAROT_CONTRACT_ACCOUNT_CLASS_HASH
    IN  Some(starknet_address_to_ethereum_address(kakarot_starknet_address))

NotKakarot == Err("OtherError", "Kakarot Filter: Tx is not part of Kakarot")

\* A gate that compares the 20-byte forms of the class hashes.
MembershipGate_Low20(class_hash, ether_tx) ==
    IF starknet_address_to_ethereum_address(class_hash)
         = starknet_address_to_ethereum_address(KAKAROT_CONTRACT_ACCOUNT_CLASS_HASH)
    THEN Ok([ether_tx EXCEPT !.to = KakarotTo])
    ELSE NotKakarot

\* The gate that ends starknet_tx_into_eth_tx.
MembershipGate(class_hash, ether_tx) ==
    LET kakarot_class_hash == KAKAROT_CONTRACT_ACCOUNT_CLASS_HASH
    IN  IF class_hash = kakarot_class_hash
        THEN Ok([ether_tx EXCEPT !.to = KakarotTo])
        ELSE NotKakarot

\* starknet_tx_into_eth_tx from the point where every remote answer it needs
\* is in: class_hash (resolved or inline) and, for L1Handler, `from`.
Translate(t, class_hash, from, bh, bn) ==
    LET p == CASE t.kind = "InvokeV0" -> PopulateInvokeV0(t, bh, bn)
               [] t.kind = "InvokeV1" -> PopulateInvokeV1(t, bh, bn)
               [] t.kind = "L1Handler" -> PopulateL1Handler(t, from, bh, bn)
               [] t.kind = "Declare" -> PopulateDeclare(t, bh, bn)
               [] t.kind = "Deploy" -> PopulateDeploy(t, bh, bn)
               [] t.kind = "DeployAccount" -> PopulateDeployAccount(t, bh, bn)
    IN  IF IsErr(p) THEN p ELSE MembershipGate(class_hash, p.val)

\* get_evm_address after its call has returned: the first element's bytes
\* [12..32].
GetEvmAddressResult(resp) ==
    IF IsErr(resp) THEN resp
    ELSE IF resp.val = <<>>
    THEN Err("OtherError", "Kakarot Core: Failed to get EVM address from smart contract on Kakarot")
    ELSE Ok(Low20(ToBytesBE(Head(resp.val))))

\* A fallback to the default address: unwrap_or_default().
SafeGetEvmAddressResult_Default(starknet_address, got) ==
    IF IsOk(got) THEN got.val ELSE ZeroAddress

\* safe_get_evm_address after get_evm_address has returned:
\* unwrap_or_else(|_| starknet_address_to_ethereum_address(starknet_address)).
SafeGetEvmAddressResult(starknet_address, got) ==
    IF IsOk(got) THEN got.val
    ELSE starknet_address_to_ethereum_address(starknet_address)

\* A push that inserts at the front.
PushIfOk_Front(transactions_vec, tx_value) ==
    IF IsOk(tx_value) THEN <<tx_value.val>> \o transactions_vec
    ELSE transactions_vec

\* The push of filter_transactions' loop body: `if let Ok(val) = tx_value`.
PushIfOk(transactions_vec, tx_value) ==
    IF IsOk(tx_value) THEN Append(transactions_vec, tx_value.val)
    ELSE transactions_vec

\* The return value of filter_transactions.
FilterResult(transactions_vec) == Ok([tag |-> "Full", list |-> transactions_vec])

\* --------------------------------------------------------- block translator

\* The fields starknet_block_to_eth_block fixes for every block.
gas_limit == 1000000

gas_used == 500000

difficulty == 1000000

total_difficulty == 1000000

base_fee_per_gas == 32

\* Some(U256::from(100)).
size == Some(100)

\* Some(H64::from_low_u64_be(0)): eight zero bytes.
nonce == Some([i \in 1..8 |-> 0])

\* Bytes::from(b"0x00"): the four characters, not one zero byte.
extra_data == <<48, 120, 48, 48>>

\* Bloom::default().
logs_bloom == <<>>

\* PrimitiveH256::from_low_u64_be(0).
mix_hash == ZeroH256

\* The characters of the literal at the confirmed full block's transactions_root.
TransactionsRootLiteral ==
    <<48, 120, 97, 99, 57, 49, 51, 51, 52, 98, 97, 56, 54, 49, 99, 98, 57, 52, 99,
      98, 97, 50, 98, 49, 102, 100, 54, 51, 100, 102, 55, 101, 56, 55, 99, 49, 53,
      99, 97, 55, 51, 54, 54, 54, 50, 48, 49, 97, 98, 100, 49, 48, 98, 53, 52, 54,
      50, 50, 53, 53, 97, 53, 99, 54, 52, 50>>

\* The characters of the literal at the confirmed full block's receipts_root.
ReceiptsRootLiteral ==
    <<48, 120, 102, 50, 99, 56, 55, 53, 53, 97, 100, 102, 51, 53, 101, 55, 56, 102,
      102, 97, 56, 52, 57, 57, 57, 101, 52, 56, 97, 98, 97, 54, 50, 56, 101, 55, 55,
      53, 98, 98, 55, 98, 101, 51, 99, 55, 48, 50, 48, 57, 55, 51, 56, 100, 55, 51,
      54, 98, 54, 55, 97, 57, 98, 53, 52, 57>>

\* PrimitiveH256::from_slice(&literal.as_bytes()[1..33]): the 32 characters
\* after the leading "0", taken as bytes.
LiteralRoot(literal) == SubSeq(literal, 2, 33)

\* Header { .. } with the fields the four arms share.
MkHeader(hash, parent_hash, sequencer, state_root, transactions_root, receipts_root, number, timestamp) ==
    [hash |-> hash, parent_hash |-> parent_hash, uncles_hash |-> parent_hash,
     author |-> sequencer, miner |-> sequencer, state_root |-> state_root,
     transactions_root |-> transactions_root, receipts_root |-> receipts_root,
     number |-> number, gas_used |-> gas_used, gas_limit |-> gas_limit,
     extra_data |-> extra_data, logs_bloom |-> logs_bloom, timestamp |-> timestamp,
     difficulty |-> difficulty, nonce |-> nonce, size |-> size,
     base_fee_per_gas |-> base_fee_per_gas, mix_hash |-> mix_hash]

\* Ok(Rich::<Block> { inner: Block { .. }, extra_info: BTreeMap::default() }).
MkRichBlock(header, transactions) ==
    Ok([inner |-> [header |-> header, total_difficulty |-> total_difficulty,
                   uncles |-> <<>>, transactions |-> transactions,
                   base_fee_per_gas |-> None, size |-> size],
        extra_info |-> <<>>])

\* A body that lists the hashes last first.
HashesBody_Reversed(transactions) ==
    [tag |-> "Hashes",
     list |-> [i \in 1..Len(transactions) |->
                 FeltToH256(transactions[Len(transactions) + 1 - i])]]

\* BlockTransactions::Hashes(transactions.into_iter().map(from_slice).collect()).
HashesBody(transactions) ==
    [tag |-> "Hashes", list |-> [i \in 1..Len(transactions) |-> FeltToH256(transactions[i])]]

\* The arm MaybePendingBlockWithTxHashes::PendingBlock.
PendingBlockWithTxHashes(b) ==
    MkRichBlock(MkHeader(None, FeltToH256(b.parent_hash),
                         Low20(ToBytesBE(b.sequencer_address)),
                         ZeroH256, ZeroH256, ZeroH256, None, b.timestamp),
                HashesBody(b.transactions))

\* A confirmed arm with the pending arm's zero state root.
BlockWithTxHashes_ZeroStateRoot(b) ==
    MkRichBlock(MkHeader(Some(FeltToH256(b.block_hash)), FeltToH256(b.parent_hash),
                         Low20(ToBytesBE(b.sequencer_address)),
                         ZeroH256, ZeroH256, ZeroH256,
                         Some(b.block_number), b.timestamp),
                HashesBody(b.transactions))

\* The arm MaybePendingBlockWithTxHashes::Block.
BlockWithTxHashes(b) ==
    MkRichBlock(MkHeader(Some(FeltToH256(b.block_hash)), FeltToH256(b.parent_hash),
                         Low20(ToBytesBE(b.sequencer_address)),
                         FeltToH256(b.new_root), ZeroH256, ZeroH256,
                         Some(b.block_number), b.timestamp),
                HashesBody(b.transactions))

\* A pending arm with the confirmed arm's literal roots.
PendingBlockWithTxs_LiteralRoots(b, filtered) ==
    IF IsErr(filtered) THEN filtered
    ELSE MkRichBlock(MkHeader(None, FeltToH256(b.parent_hash),
                              Low20(ToBytesBE(b.sequencer_address)),
                              ZeroH256,
                              LiteralRoot(TransactionsRootLiteral),
                              LiteralRoot(ReceiptsRootLiteral),
                              None, b.timestamp),
                     filtered.val)

\* The arm MaybePendingBlockWithTxs::PendingBlock, from the return of
\* filter_transactions on: `?` on its result, then the header and the block.
PendingBlockWithTxs(b, filtered) ==
    IF IsErr(filtered) THEN filtered
    ELSE MkRichBlock(MkHeader(None, FeltToH256(b.parent_hash),
                              Low20(ToBytesBE(b.sequencer_address)),
                              ZeroH256, ZeroH256, ZeroH256, None, b.timestamp),
                     filtered.val)

\* The arm MaybePendingBlockWithTxs::Block, from the return of
\* filter_transactions on.
BlockWithTxs(b, filtered) ==
    IF IsErr(filtered) THEN filtered
    ELSE MkRichBlock(MkHeader(Some(FeltToH256(b.block_hash)), FeltToH256(b.parent_hash),
                              Low20(ToBytesBE(b.sequencer_address)),
                              FeltToH256(b.new_root),
                              LiteralRoot(TransactionsRootLiteral),
                              LiteralRoot(ReceiptsRootLiteral),
                              Some(b.block_number), b.timestamp),
                     filtered.val)

\* A position that is (None, None) for every block.
BlockPosition_None(b) == <<None, None>>

\* The position filter_transactions is given for a block with transactions:
\* (None, None) for a pending block, the block's hash and number otherwise.
BlockPosition(b) ==
    IF b.pending THEN <<None, None>>
    ELSE <<Some(FeltToH256(b.block_hash)), Some(b.block_number)>>

\* The header fields of the sample blocks the node serves.  A pending block
\* has no block_hash, new_root or block_number: they are 0 in its record.
HeaderSamples ==
    {[block_hash |-> 1048677, parent_hash |-> 2097253, sequencer_address |-> 1048592,
      new_root |-> 3145833, block_number |-> 9, timestamp |-> 1700],
     [block_hash |-> 41, parent_hash |-> 42, sequencer_address |-> 43,
      new_root |-> 44, block_number |-> 10, timestamp |-> 1701]}

MkBlock(pending, h, transactions) ==
    [pending |-> pending,
     block_hash |-> IF pending THEN 0 ELSE h.block_hash,
     parent_hash |-> h.parent_hash,
     sequencer_address |-> h.sequencer_address,
     new_root |-> IF pending THEN 0 ELSE h.new_root,
     block_number |-> IF pending THEN 0 ELSE h.block_number,
     timestamp |-> h.timestamp,
     transactions |-> transactions]

\* Transaction hashes a hash-only block may list.
TxHashSamples == {1048677, 77}

\* MaybePendingBlockWithTxHashes the node may serve.
BlocksWithTxHashes ==
    {MkBlock(p, h, txs) : p \in BOOLEAN, h \in HeaderSamples,
                          txs \in SeqsUpTo(TxHashSamples, MaxTxs)}

\* The transactions that lists of transactions are drawn from: every kind,
\* both signature lengths and both class hashes, at one address.
BlockTxPool ==
    {t \in TxPool : /\ t.address \in {0, 1048585}
                    /\ t.kind \in {"Declare", "DeployAccount"} => Len(t.signature) >= 3}

\* MaybePendingBlockWithTxs the node may serve.
BlocksWithTxs ==
    {MkBlock(p, h, txs) : p \in BOOLEAN, h \in HeaderSamples,
                          txs \in SeqsUpTo(BlockTxPool, MaxTxs)}

\* -------------------------------------------------------------- receipts

\* helpers::create_default_transaction_receipt.
DefaultTransactionReceipt ==
    [transaction_hash |-> None, block_hash |-> None, block_number |-> None,
     from |-> ZeroAddress, to |-> None, contract_address |-> None,
     status_code |-> None]

\* A match that takes a rejected transaction for an executed one.
StatusCode_RejectedAsOne(status) ==
    CASE status = "Pending" -> Some(0)
      [] status = "AcceptedOnL1" -> Some(1)
      [] status = "AcceptedOnL2" -> Some(1)
      [] status = "Rejected" -> Some(1)

\* The match on the receipt's status.
StatusCode(status) ==
    CASE status = "Pending" -> Some(0)
      [] status = "AcceptedOnL1" -> Some(1)
      [] status = "AcceptedOnL2" -> Some(1)
      [] status = "Rejected" -> Some(0)

\* The arm for Invoke, Deploy and DeployAccount receipts.
FillReceipt(res_receipt, r) ==
    [res_receipt EXCEPT
       !.transaction_hash = Some(FeltToH256(r.transaction_hash)),
       !.status_code = StatusCode(r.status),
       !.block_hash = Some(FeltToH256(r.block_hash)),
       !.block_number = Some(felt_to_u256(r.block_number))]

\* An end that propagates the translator's error.
ReceiptResult_Propagate(res_receipt, eth_tx) ==
    IF IsOk(eth_tx)
    THEN Ok(Some([res_receipt EXCEPT !.from = eth_tx.val.from, !.to = eth_tx.val.to]))
    ELSE eth_tx

\* The end of get_transaction_receipt: the match on the translator's result.
ReceiptResult(res_receipt, eth_tx) ==
    IF IsOk(eth_tx)
    THEN Ok(Some([res_receipt EXCEPT !.from = eth_tx.val.from, !.to = eth_tx.val.to]))
    ELSE Ok(None)

ReceiptKinds == {"Invoke", "Deploy", "DeployAccount", "L1Handler", "Declare"}

Statuses == {"Pending", "AcceptedOnL1", "AcceptedOnL2", "Rejected"}

\* What JsonRpcClient::get_transaction_receipt may answer.
ReceiptResponses ==
    {RequestError, Ok([pending |-> TRUE])}
    \cup {Ok([pending |-> FALSE, kind |-> k, transaction_hash |-> 1048677,
              status |-> st, block_hash |-> 2097253, block_number |-> 9]) :
            k \in ReceiptKinds, st \in Statuses}

\* What JsonRpcClient::get_transaction_by_hash may answer.
TransactionResponses == {RequestError} \cup {Ok(t) : t \in TxPool}

\* The field-element form of a 32-byte hash, when it has one.
FIELD_MODULUS == 152043521

RECURSIVE Value(_)
\* The number a big-endian digit sequence stands for.
Value(bytes) ==
    IF bytes = <<>> THEN 0
    ELSE Value(SubSeq(bytes, 1, Len(bytes) - 1)) * ByteBase + bytes[Len(bytes)]

\* helpers::hash_to_field_element: fails on a value that is no field element.
hash_to_field_element(h) ==
    IF Value(h) < FIELD_MODULUS THEN Ok(Value(h))
    ELSE Err("OtherError", "hash is not a field element")

\* Transaction hashes a caller may ask a receipt for; the last is no field element.
RequestHashes == {FeltToH256(1048677), FeltToH256(77), FeltToH256(152043522)}

\* A first match that takes a Declare receipt for a supported one.
ReceiptLookup_DeclareSupported(resp) ==
    IF IsErr(resp)
    THEN [return |-> TRUE, result |-> resp, res_receipt |-> DefaultTransactionReceipt]
    ELSE IF resp.val.pending
    THEN [return |-> TRUE, result |-> Ok(None), res_receipt |-> DefaultTransactionReceipt]
    ELSE IF resp.val.kind \in {"L1Handler"}
    THEN [return |-> TRUE, result |-> Ok(None), res_receipt |-> DefaultTransactionReceipt]
    ELSE [return |-> FALSE, result |-> NoResult,
          res_receipt |-> FillReceipt(DefaultTransactionReceipt, resp.val)]

\* The first match of get_transaction_receipt, on the node's receipt:
\* whether the operation returns there, what it returns, and res_receipt.
ReceiptLookup(resp) ==
    IF IsErr(resp)
    THEN [return |-> TRUE, result |-> resp, res_receipt |-> DefaultTransactionReceipt]
    ELSE IF resp.val.pending
    THEN [return |-> TRUE, result |-> Ok(None), res_receipt |-> DefaultTransactionReceipt]
    ELSE IF resp.val.kind \in {"L1Handler", "Declare"}
    THEN [return |-> TRUE, result |-> Ok(None), res_receipt |-> DefaultTransactionReceipt]
    ELSE [return |-> FALSE, result |-> NoResult,
          res_receipt |-> FillReceipt(DefaultTransactionReceipt, resp.val)]

\* A second match that resolves the sender of an Invoke V1 too.
TransactionLookup_V1Resolved(resp) ==
    IF IsErr(resp) THEN [next |-> "return", result |-> resp]
    ELSE IF resp.val.kind \in {"InvokeV0", "InvokeV1"}
    THEN [next |-> "evm_address", result |-> NoResult]
    ELSE IF resp.val.kind \in {"DeployAccount", "Deploy"}
    THEN [next |-> "translate", result |-> NoResult]
    ELSE [next |-> "return", result |-> Ok(None)]

\* A second match that sends an Invoke V0 straight on to the translation.
TransactionLookup_V0Unresolved(resp) ==
    IF IsErr(resp) THEN [next |-> "return", result |-> resp]
    ELSE IF resp.val.kind \in {"InvokeV0", "InvokeV1", "DeployAccount", "Deploy"}
    THEN [next |-> "translate", result |-> NoResult]
    ELSE [next |-> "return", result |-> Ok(None)]

\* The second match of get_transaction_receipt, on the node's transaction:
\* "return" (with the result), "evm_address" (Invoke V0) or "translate".
TransactionLookup(resp) ==
    IF IsErr(resp) THEN [next |-> "return", result |-> resp]
    ELSE IF resp.val.kind = "InvokeV0" THEN [next |-> "evm_address", result |-> NoResult]
    ELSE IF resp.val.kind \in {"InvokeV1", "DeployAccount", "Deploy"}
    THEN [next |-> "translate", result |-> NoResult]
    ELSE [next |-> "return", result |-> Ok(None)]

\* ------------------------------------------------------ transaction counts

\* helpers::ethers_block_id_to_starknet_block_id: a block number or tag maps
\* to the Starknet block id of the same kind, a block hash to its field
\* element, which fails when the hash is none.
ethers_block_id_to_starknet_block_id(id) ==
    IF id.tag = "Hash"
    THEN LET f == hash_to_field_element(id.value)
         IN  IF IsErr(f) THEN f ELSE Ok(BlockIdOf("Hash", f.val))
    ELSE Ok(BlockIdOf(id.tag, id.value))

\* A match that gives the index of the last transaction for the count.
CountByNumberResult_LastIndex(resp) ==
    IF IsErr(resp) THEN resp
    ELSE IF resp.val.pending THEN Ok(None)
    ELSE Ok(Some(Len(resp.val.transactions) - 1))

\* The match that ends block_transaction_count_by_number.
CountByNumberResult(resp) ==
    IF IsErr(resp) THEN resp
    ELSE IF resp.val.pending THEN Ok(None)
    ELSE Ok(Some(Len(resp.val.transactions)))

\* A match that counts the transactions of a pending block too.
CountByHashResult_PendingCounted(resp) ==
    IF IsErr(resp) THEN resp
    ELSE Ok(Some(Len(resp.val.transactions)))

\* The match that ends block_transaction_count_by_hash.
CountByHashResult(resp) ==
    IF IsErr(resp) THEN resp
    ELSE IF resp.val.pending THEN Ok(None)
    ELSE Ok(Some(Len(resp.val.transactions)))

\* What JsonRpcClient::get_block_with_tx_hashes may answer.
BlockWithTxHashesResponses == {RequestError} \cup {Ok(b) : b \in BlocksWithTxHashes}

\* BlockNumber arguments: two tags and a number.
BlockNumbers == {BlockIdOf("Latest", 0), BlockIdOf("Pending", 0), BlockIdOf("Number", 9)}

\* Block ids a caller may pass to the address lookups.
BlockIds == {Latest, BlockIdOf("Number", 9)}

\* ----------------------------------------------------------- call executor

\* self.kakarot_main_contract, parsed once from KAKAROT_MAIN_CONTRACT_ADDRESS.
kakarot_main_contract == KAKAROT_MAIN_CONTRACT_ADDRESS

\* constants::selectors::EXECUTE_AT_ADDRESS.
EXECUTE_AT_ADDRESS == "execute_at_address"

\* Ethereum addresses a caller may pass: 20 bytes each, the last with its
\* high bytes set.
EthereumAddresses == {Low20(ToBytesBE(a)) : a \in {6, 1048585, 786435}}

\* A conversion that reads the low eight bytes of the address only.
AddressToFelt_Low8(ethereum_address) ==
    Ok(Value(SubSeq(ethereum_address, 13, 20)))

\* FieldElement::from_hex_be(&hex::encode(ethereum_address)), with its map_err.
AddressToFelt(ethereum_address) ==
    IF Value(ethereum_address) < FIELD_MODULUS THEN Ok(Value(ethereum_address))
    ELSE Err("OtherError", "Kakarot Core: Failed to convert Ethereum address to FieldElement")

\* FieldElement::MAX.
FieldElementMax == FIELD_MODULUS - 1

\* The calldata (Bytes) a caller may pass to call_view.
CalldataSamples == {<<>>, <<1, 2>>}

\* call_parameters of call_view: the address, ZERO, MAX, the length of the
\* calldata, then the calldata, one field element a byte.
CallParameters(ethereum_address_felt, calldata) ==
    <<ethereum_address_felt, 0, FieldElementMax, Len(calldata)>> \o calldata

\* FeltOrFeltArray: a segment of a decoded execute_at_address result.
Felt(v) == [tag |-> "Felt", val |-> v]

FeltArray(a) == [tag |-> "FeltArray", val |-> a]

\* Field elements of a return payload: bytes, and values no byte holds.
ByteFelts == {0, 255, 256, 1000}

\* The first six segments of the samples below.
SegmentPrefix == <<FeltArray(<<>>), FeltArray(<<3>>), Felt(0), FeltArray(<<4, 5>>), Felt(8), Felt(9)>>

\* helpers::decode_execute_at_address_return: what the decoder may give for a
\* call result.  It fails, or it gives a sequence of segments: none, six,
\* seven with a scalar or an array at index 6, eight.
DecodeResults ==
    {Err("OtherError", "Cannot decode the return of execute_at_address"),
     Ok(<<>>), Ok(SegmentPrefix), Ok(Append(SegmentPrefix, Felt(255))),
     Ok(Append(SegmentPrefix, Felt(255)) \o <<FeltArray(<<0, 255>>)>>)}
    \cup {Ok(Append(SegmentPrefix, FeltArray(a))) : a \in SeqsUpTo(ByteFelts, MaxReturnData)}
    \cup {Ok(Append(SegmentPrefix, FeltArray(<<255, 256>>)) \o <<Felt(1)>>)}

RECURSIVE DecimalString(_)
\* FieldElement::to_string: the decimal digits, most significant first.
DecimalString(f) ==
    IF f < 10 THEN <<f>> ELSE Append(DecimalString(f \div 10), f % 10)

\* u8::MAX.
U8_MAX == 255

RECURSIVE ParseDigits(_, _, _)
\* The digits of `s` read into `acc`, an overflow above `max` being an error.
ParseDigits(s, acc, max) ==
    IF s = <<>> THEN Some(acc)
    ELSE LET next == acc * 10 + Head(s)
         IN  IF next > max THEN None ELSE ParseDigits(Tail(s), next, max)

\* A parse that keeps the low eight bits of the number.
ParseU8_Wrapping(s) ==
    IF s = <<>> THEN None ELSE Some(ParseDigits(s, 0, 2000000000)[1] % (U8_MAX + 1))

\* s.parse::<u8>().ok().
ParseU8(s) ==
    IF s = <<>> THEN None ELSE ParseDigits(s, 0, U8_MAX)

RECURSIVE FeltArrayToBytes(_)
\* felt_array.iter().map(to_string).filter_map(parse().ok()).collect::<Vec<u8>>().
FeltArrayToBytes(felt_array) ==
    IF felt_array = <<>> THEN <<>>
    ELSE ParseU8(DecimalString(Head(felt_array))) \o FeltArrayToBytes(Tail(felt_array))

\* An end that reads the payload from segment 5.
CallViewResult_Segment5(segmented_result) ==
    IF IsErr(segmented_result) THEN segmented_result
    ELSE LET return_data == Get(segmented_result.val, 5)
         IN  IF ~IsSome(return_data)
             THEN Err("OtherError", "Cannot parse and decode last argument of Kakarot call")
             ELSE IF return_data[1].tag = "FeltArray"
             THEN Ok(FeltArrayToBytes(return_data[1].val))
             ELSE Err("OtherError", "Cannot parse and decode the return data of Kakarot call")

\* The end of call_view, from the decoder's return on: segment 6 must exist
\* and be an array.
CallViewResult(segmented_result) ==
    IF IsErr(segmented_result) THEN segmented_result
    ELSE LET return_data == Get(segmented_result.val, 6)
         IN  IF ~IsSome(return_data)
             THEN Err("OtherError", "Cannot parse and decode last argument of Kakarot call")
             ELSE IF return_data[1].tag = "FeltArray"
             THEN Ok(FeltArrayToBytes(return_data[1].val))
             ELSE Err("OtherError", "Cannot parse and decode the return data of Kakarot call")

\* -------------------------------------------------------- address resolver

\* constants::selectors::COMPUTE_STARKNET_ADDRESS.
COMPUTE_STARKNET_ADDRESS == "compute_starknet_address"

\* constants::selectors::BYTECODE.
BYTECODE == "bytecode"

\* An end that takes an empty result for the zero address.
ComputeStarknetAddressResult_Default(resp) ==
    IF IsErr(resp) THEN resp
    ELSE IF resp.val = <<>> THEN Ok(0)
    ELSE Ok(Head(resp.val))

\* The end of compute_starknet_address: the first element of the call's
\* result, an error when there is none.
ComputeStarknetAddressResult(resp) ==
    IF IsErr(resp) THEN resp
    ELSE IF resp.val = <<>>
    THEN Err("OtherError", "Kakarot Core: Failed to get Starknet address from Kakarot")
    ELSE Ok(Head(resp.val))

RECURSIVE ConcatenatedResult(_)
\* get_code's concatenated_result: fold(FieldElement::ZERO, |acc, x| acc + x),
\* the sum of the elements in the field.
ConcatenatedResult(starknet_contract_address) ==
    IF starknet_contract_address = <<>> THEN 0
    ELSE (ConcatenatedResult(SubSeq(starknet_contract_address, 1,
                                    Len(starknet_contract_address) - 1))
          + starknet_contract_address[Len(starknet_contract_address)]) % FIELD_MODULUS

RECURSIVE FlatBytes(_)
\* contract_bytecode.into_iter().flat_map(|x| x.to_bytes_be()).collect().
FlatBytes(contract_bytecode) ==
    IF contract_bytecode = <<>> THEN <<>>
    ELSE ToBytesBE(Head(contract_bytecode)) \o FlatBytes(Tail(contract_bytecode))

\* The end of get_code: the bytes of the bytecode call's result.
GetCodeResult(resp) ==
    IF IsErr(resp) THEN resp ELSE Ok(FlatBytes(resp.val))

\* ------------------------------------------------------------ client facade

\* A panic of the task that runs the request: `.unwrap()` on an Err.
Panic == [tag |-> "Panic"]

\* The end of get_eth_block_from_starknet_block: the unwrap of what
\* starknet_block_to_eth_block returned, wrapped in Ok.
GetEthBlockResult(block) ==
    IF IsOk(block) THEN Ok(block.val) ELSE Panic

\* What JsonRpcClient::get_block_with_txs may answer.
BlockWithTxsResponses ==
    {RequestError} \cup {Ok(b) : b \in {c \in BlocksWithTxs : c.timestamp = 1701}}

\* The end of block_number.
BlockNumberResult(resp) ==
    IF IsErr(resp) THEN resp ELSE Ok(resp.val)

\* What JsonRpcClient::block_number may answer.
BlockNumberResponses == {RequestError, Ok(9)}

\* The end of syncing: the match on the node's status.
SyncingResult(resp) ==
    IF IsErr(resp) THEN resp
    ELSE IF ~resp.val.syncing THEN Ok([tag |-> "None"])
    ELSE Ok([tag |-> "Info",
             starting_block |-> resp.val.starting_block_num,
             current_block |-> resp.val.current_block_num,
             highest_block |-> resp.val.highest_block_num,
             warp_chunks_amount |-> None,
             warp_chunks_processed |-> None])

\* What JsonRpcClient::syncing may answer.
SyncingResponses ==
    {RequestError, Ok([syncing |-> FALSE]),
     Ok([syncing |-> TRUE, starting_block_num |-> 1, current_block_num |-> 5,
         highest_block_num |-> 9])}

\* The end of submit_starknet_transaction: the hash of the new transaction.
SubmitResult(resp) ==
    IF IsErr(resp) THEN resp ELSE Ok(ToBytesBE(resp.val.transaction_hash))

\* What JsonRpcClient::add_invoke_transaction may answer.
AddInvokeResponses == {RequestError, Ok([transaction_hash |-> 1048677])}

\* The position transaction_by_block_number_and_index translates at: the
\* receipt's block hash and number, (None, None) for a pending receipt.
ReceiptPosition(tx_receipt) ==
    IF tx_receipt.pending THEN <<None, None>>
    ELSE <<Some(FeltToH256(tx_receipt.block_hash)), Some(tx_receipt.block_number)>>

\* ------------------------------------------------------------ the requests

VARIABLES
    pc,                \* where the request in flight stands; "idle" between requests
    req,               \* the operation called and its arguments
    log,               \* the remote calls issued by the request, in order, each with its answer
    caller,            \* who called starknet_tx_into_eth_tx: "api", "filter", "receipt"
    filter_caller,     \* who called filter_transactions: "api", "block" (starknet_block_to_eth_block),
                       \* "get_eth_block" (get_eth_block_from_starknet_block, through it)
    tx,                \* starknet_tx_into_eth_tx: the transaction
    block_hash,        \* starknet_tx_into_eth_tx: block_hash
    block_number,      \* starknet_tx_into_eth_tx: block_number
    class_hash,        \* starknet_tx_into_eth_tx: class_hash
    queue,             \* filter_transactions: the transactions still to translate
    transactions_vec,  \* filter_transactions: transactions_vec
    blk,               \* starknet_block_to_eth_block: block
    res_receipt,       \* get_transaction_receipt: res_receipt
    outcomes,          \* every return of starknet_tx_into_eth_tx in the request
    segmented_result,  \* call_view: segmented_result, the decoder's return
    result             \* the value the operation returned

vars ==
    <<pc, req, log, caller, filter_caller, tx, block_hash, block_number, class_hash,
      queue, transactions_vec, blk, res_receipt, outcomes, segmented_result, result>>

NoTx == [kind |-> "None"]

NoBlock == [pending |-> FALSE]

NoRequest == [op |-> "none"]

Init ==
    /\ pc = "idle"
    /\ req = NoRequest
    /\ log = <<>>
    /\ caller = "api"
    /\ filter_caller = "api"
    /\ tx = NoTx
    /\ block_hash = None
    /\ block_number = None
    /\ class_hash = 0
    /\ queue = <<>>
    /\ transactions_vec = <<>>
    /\ blk = NoBlock
    /\ res_receipt = DefaultTransactionReceipt
    /\ outcomes = <<>>
    /\ segmented_result = NoResult
    /\ result = NoResult

\* The value starknet_block_to_eth_block returns once filter_transactions
\* has returned `filtered`.
BlockWithTxsResult(b, filtered) ==
    IF b.pending THEN PendingBlockWithTxs(b, filtered) ELSE BlockWithTxs(b, filtered)

\* The return of filter_transactions, called by `fc` (for block `b`), into
\* its caller.
FilterReturn(vec, fc, b) ==
    /\ pc' = "done"
    /\ result' = CASE fc = "api" -> FilterResult(vec)
                   [] fc = "block" -> BlockWithTxsResult(b, FilterResult(vec))
                   [] fc = "get_eth_block" ->
                        GetEthBlockResult(BlockWithTxsResult(b, FilterResult(vec)))
    /\ transactions_vec' = vec
    /\ queue' = <<>>
    /\ UNCHANGED <<tx, res_receipt>>

\* The head of filter_transactions' loop with `vec` pushed so far and `q`
\* still to translate: call starknet_tx_into_eth_tx on the next one, or return.
FilterLoop(vec, q, fc, b) ==
    IF q = <<>> THEN FilterReturn(vec, fc, b)
    ELSE /\ pc' = "tx_begin"
         /\ tx' = Head(q)
         /\ queue' = Tail(q)
         /\ transactions_vec' = vec
         /\ UNCHANGED <<result, res_receipt>>

\* A return into filter_transactions that has a translation that failed on
\* the transport made once more.
TxReturn_Retry(res) ==
    /\ outcomes' = Append(outcomes, [tx |-> tx, res |-> res])
    /\ CASE caller = "api" ->
              /\ pc' = "done"
              /\ result' = res
              /\ UNCHANGED <<tx, queue, transactions_vec, res_receipt>>
         [] caller = "filter" ->
              IF IsErr(res) /\ res.kind = "RequestError" /\ outcomes = <<>>
              THEN /\ pc' = "tx_begin"
                   /\ UNCHANGED <<tx, queue, transactions_vec, res_receipt, result>>
              ELSE FilterLoop(PushIfOk(transactions_vec, res), queue, filter_caller, blk)
         [] caller = "receipt" ->
              /\ pc' = "done"
              /\ result' = ReceiptResult(res_receipt, res)
              /\ UNCHANGED <<tx, queue, transactions_vec, res_receipt>>

\* A return into filter_transactions that has it return the error of a
\* translation that failed, as `?` on the translation would.
TxReturn_Propagate(res) ==
    /\ outcomes' = Append(outcomes, [tx |-> tx, res |-> res])
    /\ CASE caller = "api" ->
              /\ pc' = "done"
              /\ result' = res
              /\ UNCHANGED <<tx, queue, transactions_vec, res_receipt>>
         [] caller = "filter" ->
              IF IsErr(res)
              THEN /\ pc' = "done"
                   /\ result' = CASE filter_caller = "api" -> res
                                  [] filter_caller = "block" -> BlockWithTxsResult(blk, res)
                                  [] filter_caller = "get_eth_block" ->
                                       GetEthBlockResult(BlockWithTxsResult(blk, res))
                   /\ UNCHANGED <<tx, queue, transactions_vec, res_receipt>>
              ELSE FilterLoop(PushIfOk(transactions_vec, res), queue, filter_caller, blk)
         [] caller = "receipt" ->
              /\ pc' = "done"
              /\ result' = ReceiptResult(res_receipt, res)
              /\ UNCHANGED <<tx, queue, transactions_vec, res_receipt>>

\* The return of starknet_tx_into_eth_tx with `res`, into its caller.
TxReturn(res) ==
    /\ outcomes' = Append(outcomes, [tx |-> tx, res |-> res])
    /\ CASE caller = "api" ->
              /\ pc' = "done"
              /\ result' = res
              /\ UNCHANGED <<tx, queue, transactions_vec, res_receipt>>
         [] caller = "filter" ->
              FilterLoop(PushIfOk(transactions_vec, res), queue, filter_caller, blk)
         [] caller = "receipt" ->
              /\ pc' = "done"
              /\ result' = ReceiptResult(res_receipt, res)
              /\ UNCHANGED <<tx, queue, transactions_vec, res_receipt>>

\* A call of starknet_tx_into_eth_tx(tx, block_hash, block_number).
Call_starknet_tx_into_eth_tx ==
    /\ pc = "idle"
    /\ \E t \in TxPool, pos \in BlockPositions :
         /\ req' = [op |-> "starknet_tx_into_eth_tx", tx |-> t,
                    block_hash |-> pos[1], block_number |-> pos[2]]
         /\ tx' = t
         /\ block_hash' = pos[1]
         /\ block_number' = pos[2]
    /\ pc' = "tx_begin"
    /\ caller' = "api"
    /\ UNCHANGED <<log, filter_caller, class_hash, queue, transactions_vec, blk,
                   res_receipt, outcomes, result>>
    /\ UNCHANGED segmented_result

\* starknet_tx_into_eth_tx, Invoke / L1Handler / Declare: up to the return of
\* get_class_hash_at and, but for L1Handler, on to the gate.
TxResolveClassHash ==
    /\ pc = "tx_begin"
    /\ tx.kind \in RemoteKinds
    /\ \E resp \in ClassHashResponses :
         /\ log' = Append(log, RpcCall("get_class_hash_at", Latest, tx.address, "", resp))
         /\ IF IsErr(resp)
            THEN /\ TxReturn(resp)
                 /\ UNCHANGED class_hash
            ELSE /\ class_hash' = resp.val
                 /\ IF tx.kind = "L1Handler"
                    THEN /\ pc' = "tx_l1_from"
                         /\ UNCHANGED <<tx, queue, transactions_vec, res_receipt,
                                        outcomes, result>>
                    ELSE TxReturn(Translate(tx, resp.val, ZeroAddress, block_hash,
                                            block_number))
    /\ UNCHANGED <<req, caller, filter_caller, block_hash, block_number, blk>>
    /\ UNCHANGED segmented_result

\* starknet_tx_into_eth_tx, L1Handler: get_evm_address for `from`, then the gate.
TxL1HandlerFrom ==
    /\ pc = "tx_l1_from"
    /\ \E resp \in CallResponses :
         LET from == GetEvmAddressResult(resp)
         IN  /\ log' = Append(log, RpcCall("call", Latest, tx.address, GET_EVM_ADDRESS, resp))
             /\ IF IsErr(from) THEN TxReturn(from)
                ELSE TxReturn(Translate(tx, class_hash, from.val, block_hash,
                                        block_number))
    /\ UNCHANGED <<req, caller, filter_caller, block_hash, block_number, blk,
                   class_hash>>
    /\ UNCHANGED segmented_result

\* starknet_tx_into_eth_tx, Deploy / DeployAccount: no await, the class hash
\* is the transaction's own.
TxInlineClassHash ==
    /\ pc = "tx_begin"
    /\ tx.kind \notin RemoteKinds
    /\ class_hash' = tx.class_hash
    /\ TxReturn(Translate(tx, tx.class_hash, ZeroAddress, block_hash, block_number))
    /\ UNCHANGED <<req, log, caller, filter_caller, block_hash, block_number, blk>>
    /\ UNCHANGED segmented_result

\* A call of filter_transactions(initial_transactions, blockhash_opt, blocknum_opt).
Call_filter_transactions ==
    /\ pc = "idle"
    /\ \E txs \in SeqsUpTo(BlockTxPool, MaxTxs), pos \in BlockPositions :
         /\ req' = [op |-> "filter_transactions", initial_transactions |-> txs,
                    block_hash |-> pos[1], block_number |-> pos[2]]
         /\ block_hash' = pos[1]
         /\ block_number' = pos[2]
         /\ FilterLoop(<<>>, txs, "api", blk)
    /\ caller' = "filter"
    /\ filter_caller' = "api"
    /\ UNCHANGED <<log, class_hash, blk, outcomes>>
    /\ UNCHANGED segmented_result

\* A call of starknet_block_to_eth_block on a block with transaction hashes:
\* no await, it returns at once.
Call_starknet_block_to_eth_block_hashes ==
    /\ pc = "idle"
    /\ \E b \in BlocksWithTxHashes :
         /\ req' = [op |-> "starknet_block_to_eth_block", body |-> "hashes", block |-> b]
         /\ blk' = b
         /\ result' = IF b.pending THEN PendingBlockWithTxHashes(b)
                      ELSE BlockWithTxHashes(b)
    /\ pc' = "done"
    /\ UNCHANGED <<log, caller, filter_caller, tx, block_hash, block_number,
                   class_hash, queue, transactions_vec, res_receipt, outcomes>>
    /\ UNCHANGED segmented_result

\* A call of starknet_block_to_eth_block on a block with transactions: up to
\* the first await of filter_transactions, or to the return when there is none.
Call_starknet_block_to_eth_block_txs ==
    /\ pc = "idle"
    /\ \E b \in BlocksWithTxs :
         /\ req' = [op |-> "starknet_block_to_eth_block", body |-> "txs", block |-> b]
         /\ blk' = b
         /\ block_hash' = BlockPosition(b)[1]
         /\ block_number' = BlockPosition(b)[2]
         /\ caller' = "filter"
         /\ filter_caller' = "block"
         /\ FilterLoop(<<>>, b.transactions, "block", b)
    /\ UNCHANGED <<log, class_hash, outcomes>>
    /\ UNCHANGED segmented_result

\* A call of get_evm_address(starknet_address, starknet_block_id): one call,
\* then the first element's low 20 bytes.
Call_get_evm_address ==
    /\ pc = "idle"
    /\ \E a \in StarknetAddresses, id \in BlockIds, resp \in CallResponses :
         /\ req' = [op |-> "get_evm_address", starknet_address |-> a,
                    starknet_block_id |-> id]
         /\ log' = <<RpcCall("call", id, a, GET_EVM_ADDRESS, resp)>>
         /\ result' = GetEvmAddressResult(resp)
    /\ pc' = "done"
    /\ UNCHANGED <<caller, filter_caller, tx, block_hash, block_number, class_hash,
                   queue, transactions_vec, blk, res_receipt, outcomes>>
    /\ UNCHANGED segmented_result

\* A call of safe_get_evm_address(starknet_address, starknet_block_id).  It
\* returns an Address, not a Result.
Call_safe_get_evm_address ==
    /\ pc = "idle"
    /\ \E a \in StarknetAddresses, id \in BlockIds, resp \in CallResponses :
         /\ req' = [op |-> "safe_get_evm_address", starknet_address |-> a,
                    starknet_block_id |-> id]
         /\ log' = <<RpcCall("call", id, a, GET_EVM_ADDRESS, resp)>>
         /\ result' = [tag |-> "Value",
                       val |-> SafeGetEvmAddressResult(a, GetEvmAddressResult(resp))]
    /\ pc' = "done"
    /\ UNCHANGED <<caller, filter_caller, tx, block_hash, block_number, class_hash,
                   queue, transactions_vec, blk, res_receipt, outcomes>>
    /\ UNCHANGED segmented_result

\* A call of get_transaction_receipt(hash): up to the return of the node's
\* get_transaction_receipt and the match on it.
Call_get_transaction_receipt ==
    /\ pc = "idle"
    /\ \E h \in RequestHashes :
         LET hash_felt == hash_to_field_element(h)
         IN  /\ req' = [op |-> "get_transaction_receipt", hash |-> h]
             /\ IF IsErr(hash_felt)
                THEN /\ result' = hash_felt
                     /\ pc' = "done"
                     /\ UNCHANGED <<log, res_receipt>>
                ELSE \E resp \in ReceiptResponses :
                          LET got == ReceiptLookup(resp)
                          IN  /\ log' = <<RpcCall("get_transaction_receipt",
                                                  BlockIdOf("None", 0), hash_felt.val,
                                                  "", resp)>>
                              /\ res_receipt' = got.res_receipt
                              /\ result' = got.result
                              /\ pc' = IF got.return THEN "done" ELSE "receipt_get_tx"
    /\ caller' = "receipt"
    /\ block_hash' = None
    /\ block_number' = None
    /\ UNCHANGED <<filter_caller, tx, class_hash, queue, transactions_vec, blk, outcomes>>
    /\ UNCHANGED segmented_result

\* get_transaction_receipt: get_transaction_by_hash and the match on the
\* transaction; Invoke V1, Deploy and DeployAccount go on into
\* starknet_tx_into_eth_tx(starknet_tx, None, None).
ReceiptGetTransaction ==
    /\ pc = "receipt_get_tx"
    /\ \E resp \in TransactionResponses :
         LET got == TransactionLookup(resp)
         IN  /\ log' = Append(log, RpcCall("get_transaction_by_hash", BlockIdOf("None", 0),
                                           hash_to_field_element(req.hash).val, "", resp))
             /\ result' = got.result
             /\ pc' = CASE got.next = "return" -> "done"
                        [] got.next = "evm_address" -> "receipt_evm_address"
                        [] got.next = "translate" -> "tx_begin"
             /\ tx' = IF IsOk(resp) THEN resp.val ELSE tx
    /\ UNCHANGED <<req, caller, filter_caller, block_hash, block_number, class_hash,
                   queue, transactions_vec, blk, res_receipt, outcomes>>
    /\ UNCHANGED segmented_result

\* get_transaction_receipt, Invoke V0: safe_get_evm_address on the contract
\* address at the latest block, then on into starknet_tx_into_eth_tx.
ReceiptEvmAddress ==
    /\ pc = "receipt_evm_address"
    /\ \E resp \in CallResponses :
         LET eth_address == SafeGetEvmAddressResult(tx.address, GetEvmAddressResult(resp))
         IN  /\ log' = Append(log, RpcCall("call", Latest, tx.address, GET_EVM_ADDRESS, resp))
             /\ res_receipt' = [res_receipt EXCEPT !.contract_address = Some(eth_address)]
    /\ pc' = "tx_begin"
    /\ UNCHANGED <<req, caller, filter_caller, tx, block_hash, block_number, class_hash,
                   queue, transactions_vec, blk, outcomes, result>>
    /\ UNCHANGED segmented_result

\* A call of block_transaction_count_by_number(number).
Call_block_transaction_count_by_number ==
    /\ pc = "idle"
    /\ \E number \in BlockNumbers, resp \in BlockWithTxHashesResponses :
         LET starknet_block_id == ethers_block_id_to_starknet_block_id(number)
         IN  /\ req' = [op |-> "block_transaction_count_by_number", id |-> number]
             /\ IF IsErr(starknet_block_id)
                THEN /\ result' = starknet_block_id
                     /\ UNCHANGED log
                ELSE /\ log' = <<RpcCall("get_block_with_tx_hashes",
                                         starknet_block_id.val, 0, "", resp)>>
                     /\ result' = CountByNumberResult(resp)
    /\ pc' = "done"
    /\ UNCHANGED <<caller, filter_caller, tx, block_hash, block_number, class_hash,
                   queue, transactions_vec, blk, res_receipt, outcomes>>
    /\ UNCHANGED segmented_result

\* A call of block_transaction_count_by_hash(hash).
Call_block_transaction_count_by_hash ==
    /\ pc = "idle"
    /\ \E h \in RequestHashes, resp \in BlockWithTxHashesResponses :
         LET starknet_block_id == ethers_block_id_to_starknet_block_id(BlockIdOf("Hash", h))
         IN  /\ req' = [op |-> "block_transaction_count_by_hash", id |-> BlockIdOf("Hash", h)]
             /\ IF IsErr(starknet_block_id)
                THEN /\ result' = starknet_block_id
                     /\ UNCHANGED log
                ELSE /\ log' = <<RpcCall("get_block_with_tx_hashes",
                                         starknet_block_id.val, 0, "", resp)>>
                     /\ result' = CountByHashResult(resp)
    /\ pc' = "done"
    /\ UNCHANGED <<caller, filter_caller, tx, block_hash, block_number, class_hash,
                   queue, transactions_vec, blk, res_receipt, outcomes>>
    /\ UNCHANGED segmented_result

\* A call of call_view(ethereum_address, calldata, starknet_block_id): the
\* execute_at_address call on the Kakarot main contract, the decoding of its
\* result and the bytes of segment 6.
Call_call_view ==
    /\ pc = "idle"
    /\ \E a \in EthereumAddresses, calldata \in CalldataSamples, id \in BlockIds,
          resp \in CallResponses :
         LET ethereum_address_felt == AddressToFelt(a)
         IN  /\ req' = [op |-> "call_view", ethereum_address |-> a,
                        calldata |-> calldata, starknet_block_id |-> id]
             /\ IF IsErr(ethereum_address_felt)
                THEN /\ result' = ethereum_address_felt
                     /\ UNCHANGED <<log, segmented_result>>
                ELSE /\ log' = <<FunctionCall(kakarot_main_contract, EXECUTE_AT_ADDRESS,
                                              CallParameters(ethereum_address_felt.val, calldata),
                                              id, resp)>>
                     /\ IF IsErr(resp)
                        THEN /\ result' = resp
                             /\ UNCHANGED segmented_result
                        ELSE \E decoded \in DecodeResults :
                               /\ segmented_result' = decoded
                               /\ result' = CallViewResult(decoded)
    /\ pc' = "done"
    /\ UNCHANGED <<caller, filter_caller, tx, block_hash, block_number, class_hash,
                   queue, transactions_vec, blk, res_receipt, outcomes>>

\* A call of compute_starknet_address(ethereum_address, starknet_block_id):
\* one call on the Kakarot main contract, then the first element of its result.
Call_compute_starknet_address ==
    /\ pc = "idle"
    /\ \E a \in EthereumAddresses, id \in BlockIds, resp \in CallResponses :
         LET ethereum_address_felt == AddressToFelt(a)
         IN  /\ req' = [op |-> "compute_starknet_address", ethereum_address |-> a,
                        starknet_block_id |-> id]
             /\ IF IsErr(ethereum_address_felt)
                THEN /\ result' = ethereum_address_felt
                     /\ UNCHANGED log
                ELSE /\ log' = <<FunctionCall(kakarot_main_contract, COMPUTE_STARKNET_ADDRESS,
                                              <<ethereum_address_felt.val>>, id, resp)>>
                     /\ result' = ComputeStarknetAddressResult(resp)
    /\ pc' = "done"
    /\ UNCHANGED <<caller, filter_caller, tx, block_hash, block_number, class_hash,
                   queue, transactions_vec, blk, res_receipt, outcomes, segmented_result>>

\* A call of get_code(ethereum_address, starknet_block_id): up to the return
\* of the compute_starknet_address call on the Kakarot main contract.
Call_get_code ==
    /\ pc = "idle"
    /\ \E a \in EthereumAddresses, id \in BlockIds, resp \in CallResponses :
         LET ethereum_address_felt == AddressToFelt(a)
         IN  /\ req' = [op |-> "get_code", ethereum_address |-> a,
                        starknet_block_id |-> id]
             /\ IF IsErr(ethereum_address_felt)
                THEN /\ result' = ethereum_address_felt
                     /\ pc' = "done"
                     /\ UNCHANGED log
                ELSE /\ log' = <<FunctionCall(kakarot_main_contract, COMPUTE_STARKNET_ADDRESS,
                                              <<ethereum_address_felt.val>>, id, resp)>>
                     /\ result' = IF IsErr(resp) THEN resp ELSE NoResult
                     /\ pc' = IF IsErr(resp) THEN "done" ELSE "get_code_bytecode"
    /\ UNCHANGED <<caller, filter_caller, tx, block_hash, block_number, class_hash,
                   queue, transactions_vec, blk, res_receipt, outcomes, segmented_result>>

\* get_code: the bytecode call on concatenated_result, the fold of the first
\* call's result, and the bytes of what it returns.
GetCodeBytecode ==
    /\ pc = "get_code_bytecode"
    /\ \E resp \in CallResponses :
         LET concatenated_result == ConcatenatedResult(log[1].answer.val)
         IN  /\ log' = Append(log, FunctionCall(concatenated_result, BYTECODE, <<>>,
                                                req.starknet_block_id, resp))
             /\ result' = GetCodeResult(resp)
    /\ pc' = "done"
    /\ UNCHANGED <<req, caller, filter_caller, tx, block_hash, block_number, class_hash,
                   queue, transactions_vec, blk, res_receipt, outcomes, segmented_result>>

\* A call of get_eth_block_from_starknet_block(block_id, hydrated_tx): the
\* block lookup, then starknet_block_to_eth_block on what the node served, up
\* to its return or to the first await of filter_transactions.
Call_get_eth_block_from_starknet_block ==
    /\ pc = "idle"
    /\ \E id \in BlockIds, hydrated_tx \in BOOLEAN :
         /\ req' = [op |-> "get_eth_block_from_starknet_block", block_id |-> id,
                    hydrated_tx |-> hydrated_tx]
         /\ IF hydrated_tx
            THEN \E resp \in BlockWithTxsResponses :
                   /\ log' = <<RpcCall("get_block_with_txs", id, 0, "", resp)>>
                   /\ IF IsErr(resp)
                      THEN /\ pc' = "done"
                           /\ result' = resp
                           /\ UNCHANGED <<tx, queue, transactions_vec, res_receipt, blk,
                                          block_hash, block_number>>
                      ELSE /\ blk' = resp.val
                           /\ block_hash' = BlockPosition(resp.val)[1]
                           /\ block_number' = BlockPosition(resp.val)[2]
                           /\ FilterLoop(<<>>, resp.val.transactions, "get_eth_block", resp.val)
            ELSE \E resp \in BlockWithTxHashesResponses :
                   /\ log' = <<RpcCall("get_block_with_tx_hashes", id, 0, "", resp)>>
                   /\ pc' = "done"
                   /\ result' = IF IsErr(resp) THEN resp
                                ELSE GetEthBlockResult(IF resp.val.pending
                                                       THEN PendingBlockWithTxHashes(resp.val)
                                                       ELSE BlockWithTxHashes(resp.val))
                   /\ blk' = IF IsErr(resp) THEN blk ELSE resp.val
                   /\ UNCHANGED <<tx, queue, transactions_vec, res_receipt, block_hash,
                                  block_number>>
    /\ caller' = "filter"
    /\ filter_caller' = "get_eth_block"
    /\ UNCHANGED <<class_hash, outcomes, segmented_result>>

\* A call of block_number().
Call_block_number ==
    /\ pc = "idle"
    /\ \E resp \in BlockNumberResponses :
         /\ req' = [op |-> "block_number"]
         /\ log' = <<RpcCall("block_number", BlockIdOf("None", 0), 0, "", resp)>>
         /\ result' = BlockNumberResult(resp)
    /\ pc' = "done"
    /\ UNCHANGED <<caller, filter_caller, tx, block_hash, block_number, class_hash,
                   queue, transactions_vec, blk, res_receipt, outcomes, segmented_result>>

\* A call of syncing().
Call_syncing ==
    /\ pc = "idle"
    /\ \E resp \in SyncingResponses :
         /\ req' = [op |-> "syncing"]
         /\ log' = <<RpcCall("syncing", BlockIdOf("None", 0), 0, "", resp)>>
         /\ result' = SyncingResult(resp)
    /\ pc' = "done"
    /\ UNCHANGED <<caller, filter_caller, tx, block_hash, block_number, class_hash,
                   queue, transactions_vec, blk, res_receipt, outcomes, segmented_result>>

\* A call of submit_starknet_transaction(max_fee, signature, nonce,
\* sender_address, calldata): one add_invoke_transaction of an Invoke V1.
Call_submit_starknet_transaction ==
    /\ pc = "idle"
    /\ \E sender_address \in StarknetAddresses, signature \in Signatures,
          calldata \in CalldataSamples, resp \in AddInvokeResponses :
         /\ req' = [op |-> "submit_starknet_transaction", max_fee |-> 100,
                    signature |-> signature, nonce |-> 1,
                    sender_address |-> sender_address, calldata |-> calldata]
         /\ log' = <<[RpcCall("add_invoke_transaction", BlockIdOf("None", 0),
                              sender_address, "", resp) EXCEPT !.calldata = calldata]>>
         /\ result' = SubmitResult(resp)
    /\ pc' = "done"
    /\ UNCHANGED <<caller, filter_caller, tx, block_hash, block_number, class_hash,
                   queue, transactions_vec, blk, res_receipt, outcomes, segmented_result>>

\* A call of transaction_by_block_number_and_index(block_id, tx_index): up to
\* the return of get_transaction_by_block_id_and_index.
Call_transaction_by_block_number_and_index ==
    /\ pc = "idle"
    /\ \E id \in BlockIds, resp \in TransactionResponses :
         /\ req' = [op |-> "transaction_by_block_number_and_index", block_id |-> id,
                    tx_index |-> 1]
         /\ log' = <<RpcCall("get_transaction_by_block_id_and_index", id, 1, "", resp)>>
         /\ result' = IF IsErr(resp) THEN resp ELSE NoResult
         /\ pc' = IF IsErr(resp) THEN "done" ELSE "tx_index_receipt"
         /\ tx' = IF IsErr(resp) THEN tx ELSE resp.val
    /\ caller' = "api"
    /\ UNCHANGED <<filter_caller, block_hash, block_number, class_hash, queue,
                   transactions_vec, blk, res_receipt, outcomes, segmented_result>>

\* transaction_by_block_number_and_index: the receipt lookup for the block
\* position, then on into starknet_tx_into_eth_tx, whose result it returns.
TxByIndexReceipt ==
    /\ pc = "tx_index_receipt"
    /\ \E resp \in ReceiptResponses :
         /\ log' = Append(log, RpcCall("get_transaction_receipt", BlockIdOf("None", 0),
                                       tx.transaction_hash, "", resp))
         /\ IF IsErr(resp)
            THEN /\ pc' = "done"
                 /\ result' = resp
                 /\ UNCHANGED <<block_hash, block_number>>
            ELSE /\ pc' = "tx_begin"
                 /\ block_hash' = ReceiptPosition(resp.val)[1]
                 /\ block_number' = ReceiptPosition(resp.val)[2]
                 /\ UNCHANGED result
    /\ UNCHANGED <<req, caller, filter_caller, tx, class_hash, queue, transactions_vec,
                   blk, res_receipt, outcomes, segmented_result>>

\* The operation has returned; the client keeps nothing of the request.
Return ==
    /\ pc = "done"
    /\ pc' = "idle"
    /\ req' = NoRequest
    /\ log' = <<>>
    /\ caller' = "api"
    /\ filter_caller' = "api"
    /\ tx' = NoTx
    /\ block_hash' = None
    /\ block_number' = None
    /\ class_hash' = 0
    /\ queue' = <<>>
    /\ transactions_vec' = <<>>
    /\ blk' = NoBlock
    /\ res_receipt' = DefaultTransactionReceipt
    /\ outcomes' = <<>>
    /\ segmented_result' = NoResult
    /\ result' = NoResult

Next ==
    \/ Call_starknet_tx_into_eth_tx
    \/ TxResolveClassHash
    \/ TxL1HandlerFrom
    \/ TxInlineClassHash
    \/ Call_filter_transactions
    \/ Call_starknet_block_to_eth_block_hashes
    \/ Call_starknet_block_to_eth_block_txs
    \/ Call_get_evm_address
    \/ Call_safe_get_evm_address
    \/ Call_get_transaction_receipt
    \/ ReceiptGetTransaction
    \/ ReceiptEvmAddress
    \/ Call_block_transaction_count_by_number
    \/ Call_block_transaction_count_by_hash
    \/ Call_call_view
    \/ Call_compute_starknet_address
    \/ Call_get_code
    \/ GetCodeBytecode
    \/ Call_get_eth_block_from_starknet_block
    \/ Call_block_number
    \/ Call_syncing
    \/ Call_submit_starknet_transaction
    \/ Call_transaction_by_block_number_and_index
    \/ TxByIndexReceipt
    \/ Return

Spec == Init /\ [][Next]_vars

\* ------------------------------------------------------------- properties

\* The request in flight is a call of `op` that has returned.
Returned(op) == pc = "done" /\ req.op = op

\* The 32-byte (resp. low-20-byte) form of a field element, written out.
Bytes32(f) == [i \in 1..32 |-> Digits(f, 32)[i]]

Bytes20(f) == [i \in 1..20 |-> Digits(f, 32)[12 + i]]

\* The class hash a standalone translation compared at the gate: the node's
\* answer, or the one the Deploy / DeployAccount carries; None when the
\* lookup failed.
C1_ClassHash ==
    IF req.tx.kind \in RemoteKinds
    THEN IF IsOk(log[1].answer) THEN Some(log[1].answer.val) ELSE None
    ELSE Some(req.tx.class_hash)

\* No step before the gate failed: the signature has its three slots and,
\* for L1Handler, the get_evm_address lookup gave an address.
C1_ReachedGate ==
    /\ req.tx.kind \in SignedKinds => Len(req.tx.signature) >= 3
    /\ req.tx.kind = "L1Handler" =>
         Len(log) = 2 /\ IsOk(log[2].answer) /\ log[2].answer.val # <<>>

\* C1 as stated: starknet_tx_into_eth_tx returns Ok only if the class hash it
\* resolved (or the inline one) is the Kakarot account class hash, and whenever
\* that class hash differs it returns the not-a-Kakarot-transaction error.
C1_GateAsClaimed ==
    Returned("starknet_tx_into_eth_tx") =>
      /\ IsOk(result) => C1_ClassHash = Some(KAKAROT_CONTRACT_ACCOUNT_CLASS_HASH)
      /\ (C1_ClassHash # None /\ C1_ClassHash # Some(KAKAROT_CONTRACT_ACCOUNT_CLASS_HASH))
           => (IsErr(result) /\ result.msg = NotKakarot.msg)

\* C1 amended: starknet_tx_into_eth_tx returns Ok only if the class hash it
\* resolved (or the inline one) is the Kakarot account class hash; whenever
\* that class hash differs it returns an error, never a transaction, and the
\* error is the not-a-Kakarot-transaction error unless an earlier step failed
\* (a signature of fewer than three elements, a failed get_evm_address lookup
\* of an L1Handler).
C1_MembershipGate ==
    Returned("starknet_tx_into_eth_tx") =>
      /\ IsOk(result) => C1_ClassHash = Some(KAKAROT_CONTRACT_ACCOUNT_CLASS_HASH)
      /\ (C1_ClassHash # None /\ C1_ClassHash # Some(KAKAROT_CONTRACT_ACCOUNT_CLASS_HASH))
           => /\ IsErr(result)
              /\ C1_ReachedGate => (result.kind = "OtherError" /\ result.msg = NotKakarot.msg)

\* A translation that reached the gate with a foreign class hash the node
\* reported, and was refused there.
C1_Witness ==
    /\ Returned("starknet_tx_into_eth_tx")
    /\ req.tx.kind = "InvokeV0"
    /\ C1_ClassHash = Some(1048579)
    /\ C1_ReachedGate
    /\ IsErr(result)
    /\ result.msg = NotKakarot.msg

RECURSIVE OkValues(_)
\* The values of the translations of `outs` that succeeded, in order.
OkValues(outs) ==
    IF outs = <<>> THEN <<>>
    ELSE LET rest == OkValues(Tail(outs))
         IN  IF Head(outs).res.tag = "Ok" THEN <<Head(outs).res.val>> \o rest ELSE rest

\* The list of transactions filter_transactions was given.
C2_Input ==
    IF req.op = "filter_transactions" THEN req.initial_transactions
    ELSE req.block.transactions

\* C2: filter_transactions returns Ok with exactly the translations that
\* succeeded, in source order: every input transaction was translated, one
\* after the other, whatever the outcome of the ones before it, and a failed
\* translation fails neither the call nor the block conversion around it.
C2_FullBodyIsOkSubsequence ==
    /\ Returned("filter_transactions") =>
         /\ Len(outcomes) = Len(C2_Input)
         /\ \A i \in DOMAIN outcomes : outcomes[i].tx = C2_Input[i]
         /\ IsOk(result)
         /\ result.val.tag = "Full"
         /\ result.val.list = OkValues(outcomes)
    /\ (Returned("starknet_block_to_eth_block") /\ req.body = "txs") =>
         /\ Len(outcomes) = Len(C2_Input)
         /\ \A i \in DOMAIN outcomes : outcomes[i].tx = C2_Input[i]
         /\ IsOk(result)
         /\ result.val.inner.transactions.tag = "Full"
         /\ result.val.inner.transactions.list = OkValues(outcomes)

\* A list whose first translation failed and whose second succeeded: the
\* result holds the second alone.
C2_Witness ==
    /\ Returned("filter_transactions")
    /\ Len(req.initial_transactions) = 2
    /\ IsErr(outcomes[1].res)
    /\ IsOk(outcomes[2].res)
    /\ IsOk(result)
    /\ Len(result.val.list) = 1
    /\ result.val.list[1].hash = Bytes32(req.initial_transactions[2].transaction_hash)

\* C3 as stated: every translation that succeeds has `to` equal to the
\* low-20-byte form of KAKAROT_MAIN_CONTRACT_ADDRESS.
C3_ToIsKakarotMainContract ==
    \A i \in DOMAIN outcomes :
      IsOk(outcomes[i].res) =>
        outcomes[i].res.val.to = Some(Bytes20(KAKAROT_MAIN_CONTRACT_ADDRESS))

\* C4: in get_transaction_receipt, a translation that fails, for any reason,
\* makes the operation return Ok(None), and one that succeeds gives the
\* receipt its from and to.
C4_ReceiptTranslation ==
    (Returned("get_transaction_receipt") /\ outcomes # <<>>) =>
      /\ IsOk(result)
      /\ IsErr(outcomes[1].res) => result.val = None
      /\ IsOk(outcomes[1].res) =>
           /\ IsSome(result.val)
           /\ result.val[1].from = outcomes[1].res.val.from
           /\ result.val[1].to = outcomes[1].res.val.to

\* A receipt lookup whose translation failed on the transport and which
\* returned Ok(None).
C4_Witness ==
    /\ Returned("get_transaction_receipt")
    /\ outcomes # <<>>
    /\ IsErr(outcomes[1].res)
    /\ outcomes[1].res.kind = "RequestError"
    /\ IsOk(result)
    /\ result.val = None

\* The node answered the receipt lookup with a pending receipt, or with the
\* receipt of an L1Handler or Declare transaction.
C5_Unsupported ==
    /\ req.op = "get_transaction_receipt"
    /\ log # <<>>
    /\ IsOk(log[1].answer)
    /\ IF log[1].answer.val.pending THEN TRUE
       ELSE log[1].answer.val.kind \in {"L1Handler", "Declare"}

\* C5: a pending, L1Handler or Declare receipt makes get_transaction_receipt
\* return Ok(None) with no remote call after the receipt lookup.
C5_UnsupportedReceiptIsAbsent ==
    C5_Unsupported =>
      /\ pc = "done"
      /\ IsOk(result)
      /\ result.val = None
      /\ Len(log) = 1

\* A Declare receipt, answered with Ok(None).
C5_Witness ==
    /\ C5_Unsupported
    /\ ~log[1].answer.val.pending
    /\ log[1].answer.val.kind = "Declare"
    /\ pc = "done"
    /\ result.val = None

\* C6: safe_get_evm_address never fails: it returns what get_evm_address
\* returns (the low 20 bytes of the first element of the call's result) and,
\* when get_evm_address fails (transport error, empty result), the low 20
\* bytes of the Starknet address, with one remote call in all.
C6_SafeGetEvmAddress ==
    Returned("safe_get_evm_address") =>
      /\ result.tag = "Value"
      /\ Len(log) = 1
      /\ IF IsOk(log[1].answer) /\ log[1].answer.val # <<>>
         THEN result.val = Bytes20(log[1].answer.val[1])
         ELSE result.val = Bytes20(req.starknet_address)

\* The call gave an empty result for an address with high bytes set, and the
\* address's own low 20 bytes came back.
C6_Witness ==
    /\ Returned("safe_get_evm_address")
    /\ IsOk(log[1].answer)
    /\ log[1].answer.val = <<>>
    /\ req.starknet_address = 1048585
    /\ result.val = Bytes20(9)

\* The header of the block a returned starknet_block_to_eth_block gave.
HeaderOf(r) == r.val.inner.header

C8_TransactionsRoot ==
    <<120, 97, 99, 57, 49, 51, 51, 52, 98, 97, 56, 54, 49, 99, 98, 57, 52, 99, 98, 97,
      50, 98, 49, 102, 100, 54, 51, 100, 102, 55, 101, 56>>

\* The 32 bytes of its receipts_root: "xf2c8755adf35e78ffa84999e48aba62".
C8_ReceiptsRoot ==
    <<120, 102, 50, 99, 56, 55, 53, 53, 97, 100, 102, 51, 53, 101, 55, 56, 102, 102,
      97, 56, 52, 57, 57, 57, 101, 52, 56, 97, 98, 97, 54, 50>>

\* C8: a confirmed block converts to a block whose hash, number and state
\* root are the node's; its transactions and receipts roots are zero with a
\* hash-only body and two fixed literals with a full body.
C8_ConfirmedBlock ==
    (Returned("starknet_block_to_eth_block") /\ ~req.block.pending) =>
      /\ IsOk(result)
      /\ HeaderOf(result).hash = Some(Bytes32(req.block.block_hash))
      /\ HeaderOf(result).number = Some(req.block.block_number)
      /\ HeaderOf(result).state_root = Bytes32(req.block.new_root)
      /\ req.body = "hashes" =>
           /\ HeaderOf(result).transactions_root = ZeroH256
           /\ HeaderOf(result).receipts_root = ZeroH256
      /\ req.body = "txs" =>
           /\ HeaderOf(result).transactions_root = C8_TransactionsRoot
           /\ HeaderOf(result).receipts_root = C8_ReceiptsRoot

\* A confirmed block with two transactions, none of which was kept: the
\* roots are the literals all the same.
C8_Witness ==
    /\ Returned("starknet_block_to_eth_block")
    /\ ~req.block.pending
    /\ req.body = "txs"
    /\ Len(req.block.transactions) = 2
    /\ IsOk(result)
    /\ result.val.inner.transactions.list = <<>>
    /\ HeaderOf(result).transactions_root = C8_TransactionsRoot
    /\ HeaderOf(result).state_root # ZeroH256

\* C9: a hash-only body lists the node's transaction hashes verbatim, each in
\* its 32-byte form, in the node's order, and the conversion issues no
\* remote call.
C9_HashesVerbatim ==
    (Returned("starknet_block_to_eth_block") /\ req.body = "hashes") =>
      /\ IsOk(result)
      /\ result.val.inner.transactions.tag = "Hashes"
      /\ Len(result.val.inner.transactions.list) = Len(req.block.transactions)
      /\ \A i \in DOMAIN req.block.transactions :
           result.val.inner.transactions.list[i] = Bytes32(req.block.transactions[i])
      /\ log = <<>>
      /\ outcomes = <<>>

\* A block that lists two different hashes: both are in the body, in order.
C9_Witness ==
    /\ Returned("starknet_block_to_eth_block")
    /\ req.body = "hashes"
    /\ req.block.transactions = <<1048677, 77>>
    /\ IsOk(result)
    /\ Len(result.val.inner.transactions.list) = 2
    /\ result.val.inner.transactions.list[2] = Bytes32(77)

\* The request is a transaction count that reached the node.
C10_Counted ==
    /\ pc = "done"
    /\ req.op \in {"block_transaction_count_by_number", "block_transaction_count_by_hash"}
    /\ log # <<>>

\* C10: the transaction counts are Ok(None) for a pending block, Ok(Some(N))
\* for a confirmed block that lists N hashes, and the transport's error when
\* the block lookup fails.
C10_TransactionCount ==
    C10_Counted =>
      /\ Len(log) = 1
      /\ log[1].method = "get_block_with_tx_hashes"
      /\ IF IsErr(log[1].answer)
         THEN IsErr(result) /\ result.kind = "RequestError"
         ELSE /\ IsOk(result)
              /\ IF log[1].answer.val.pending THEN result.val = None
                 ELSE result.val = Some(Len(log[1].answer.val.transactions))

\* A count by hash of a pending block that lists transactions: None.
C10_Witness ==
    /\ C10_Counted
    /\ req.op = "block_transaction_count_by_hash"
    /\ IsOk(log[1].answer)
    /\ log[1].answer.val.pending
    /\ Len(log[1].answer.val.transactions) = 2
    /\ IsOk(result)
    /\ result.val = None
\* The receipt the node answered a get_transaction_receipt request with.
C11_NodeReceipt == log[1].answer.val

\* C11: a receipt that get_transaction_receipt returns as Some is the
\* translation of an Invoke, Deploy or DeployAccount receipt: its status code
\* is 1 for AcceptedOnL1 and AcceptedOnL2 and 0 for Pending and Rejected, and
\* its transaction hash, block hash and block number are the node receipt's.
C11_ReceiptStatusMapping ==
    (Returned("get_transaction_receipt") /\ IsOk(result) /\ IsSome(result.val)) =>
      /\ C11_NodeReceipt.kind \in {"Invoke", "Deploy", "DeployAccount"}
      /\ C11_NodeReceipt.status \in {"AcceptedOnL1", "AcceptedOnL2"} =>
           result.val[1].status_code = Some(1)
      /\ C11_NodeReceipt.status \in {"Pending", "Rejected"} =>
           result.val[1].status_code = Some(0)
      /\ result.val[1].transaction_hash = Some(Bytes32(C11_NodeReceipt.transaction_hash))
      /\ result.val[1].block_hash = Some(Bytes32(C11_NodeReceipt.block_hash))
      /\ result.val[1].block_number = Some(C11_NodeReceipt.block_number)

\* The receipt of a rejected DeployAccount came back with status code 0.
C11_Witness ==
    /\ Returned("get_transaction_receipt")
    /\ IsOk(result)
    /\ IsSome(result.val)
    /\ C11_NodeReceipt.kind = "DeployAccount"
    /\ C11_NodeReceipt.status = "Rejected"
    /\ result.val[1].status_code = Some(0)
    /\ result.val[1].block_number = Some(9)

\* The transaction the node answered get_transaction_by_hash with.
C12_NodeTransaction == log[2].answer.val

\* C12: in get_transaction_receipt, an Invoke V0 transaction has its contract
\* address resolved by one get_evm_address call at the latest block, whose
\* failure does not fail the lookup: contract_address is the call's answer
\* or, when the call fails, the low 20 bytes of the contract address.  An
\* Invoke V1 transaction causes no get_evm_address call and contract_address
\* stays None.
C12_ReceiptContractAddress ==
    (Returned("get_transaction_receipt") /\ Len(log) >= 2 /\ IsOk(log[2].answer)) =>
      /\ C12_NodeTransaction.kind = "InvokeV0" =>
           /\ Len(log) >= 3
           /\ log[3].method = "call"
           /\ log[3].selector = GET_EVM_ADDRESS
           /\ log[3].arg = C12_NodeTransaction.address
           /\ log[3].block_id = BlockIdOf("Latest", 0)
           /\ \A i \in 4..Len(log) : log[i].selector # GET_EVM_ADDRESS
           /\ IsOk(result)
           /\ IsSome(result.val) =>
                result.val[1].contract_address =
                  Some(IF IsOk(log[3].answer) /\ log[3].answer.val # <<>>
                       THEN Bytes20(log[3].answer.val[1])
                       ELSE Bytes20(C12_NodeTransaction.address))
      /\ C12_NodeTransaction.kind = "InvokeV1" =>
           /\ \A i \in DOMAIN log : log[i].selector # GET_EVM_ADDRESS
           /\ IsOk(result)
           /\ IsSome(result.val) => result.val[1].contract_address = None

\* The get_evm_address call of an Invoke V0 failed on the transport, and the
\* receipt came back with the low 20 bytes of a contract address that has
\* high bytes set.
C12_Witness ==
    /\ Returned("get_transaction_receipt")
    /\ Len(log) >= 3
    /\ IsOk(log[2].answer)
    /\ C12_NodeTransaction.kind = "InvokeV0"
    /\ C12_NodeTransaction.address = 1048585
    /\ IsErr(log[3].answer)
    /\ IsOk(result)
    /\ IsSome(result.val)
    /\ result.val[1].contract_address = Some(Bytes20(1048585))

\* call_view has returned and the decoder had given it a sequence of segments.
C13_Decoded ==
    /\ Returned("call_view")
    /\ segmented_result # NoResult
    /\ IsOk(segmented_result)

\* Segment 6 of the decoded result exists and is an array.
C13_Segment6IsArray ==
    /\ Len(segmented_result.val) >= 7
    /\ segmented_result.val[7].tag = "FeltArray"

\* C13: when the decoded execute_at_address result has fewer than 7 segments,
\* or a scalar at index 6, call_view returns an OtherError; it returns Ok
\* exactly when segment 6 exists and is an array, and it always returns a
\* value (Ok or Err).
C13_SegmentIndexContract ==
    C13_Decoded =>
      /\ result.tag \in {"Ok", "Err"}
      /\ IsOk(result) <=> C13_Segment6IsArray
      /\ IsErr(result) => result.kind = "OtherError"

\* A result of seven segments with a scalar at index 6 gave an OtherError.
C13_Witness ==
    /\ C13_Decoded
    /\ Len(segmented_result.val) = 7
    /\ segmented_result.val[7].tag = "Felt"
    /\ IsErr(result)
    /\ result.kind = "OtherError"

\* The return payload call_view decoded: segment 6 of the decoded result.
C14_Payload == segmented_result.val[7].val

\* C14: the bytes call_view returns are the elements of the payload whose
\* value is in 0..255, each as one byte, in the payload's order; an element
\* outside that range is left out and fails nothing, so the output is no
\* longer than the payload.
C14_ByteDecodingIsLossy ==
    (C13_Decoded /\ C13_Segment6IsArray) =>
      /\ IsOk(result)
      /\ result.val = SelectSeq(C14_Payload, LAMBDA x : x \in 0..255)
      /\ Len(result.val) <= Len(C14_Payload)

\* A payload with an element above 255 between two bytes gave the two bytes.
C14_Witness ==
    /\ C13_Decoded
    /\ C13_Segment6IsArray
    /\ C14_Payload = <<255, 256, 0>>
    /\ IsOk(result)
    /\ result.val = <<255, 0>>

\* C15 as stated: the bytecode call of get_code goes to the first element of
\* the compute_starknet_address call's result, the address
\* compute_starknet_address returns, whatever the length of that result.
C15_BytecodeAtFirstElement ==
    (req.op = "get_code" /\ Len(log) >= 2) =>
      /\ log[2].selector = BYTECODE
      /\ ComputeStarknetAddressResult(log[1].answer) = Ok(log[2].arg)

\* C16: compute_starknet_address issues one call, to the Kakarot main
\* contract, selector compute_starknet_address, calldata the Ethereum address
\* as one field element, at the block reference it was given; it returns the
\* first element of the result, the call's error when the call fails, and an
\* OtherError when the result is empty.
C16_ComputeStarknetAddress ==
    Returned("compute_starknet_address") =>
      /\ Len(log) = 1
      /\ log[1].method = "call"
      /\ log[1].arg = KAKAROT_MAIN_CONTRACT_ADDRESS
      /\ log[1].selector = COMPUTE_STARKNET_ADDRESS
      /\ log[1].calldata = <<Value(req.ethereum_address)>>
      /\ log[1].block_id = req.starknet_block_id
      /\ IsErr(log[1].answer) => result = log[1].answer
      /\ (IsOk(log[1].answer) /\ log[1].answer.val = <<>>) =>
           IsErr(result) /\ result.kind = "OtherError"
      /\ (IsOk(log[1].answer) /\ log[1].answer.val # <<>>) =>
           result = Ok(log[1].answer.val[1])

\* The call at a numbered block gave an empty result, and an error came back.
C16_Witness ==
    /\ Returned("compute_starknet_address")
    /\ req.starknet_block_id = BlockIdOf("Number", 9)
    /\ Len(log) = 1
    /\ log[1].answer = Ok(<<>>)
    /\ IsErr(result)
    /\ result.kind = "OtherError"

\* C17 as stated: every translation that succeeds, of any of the six kinds,
\* has no gas_price and has chain_id Some(CHAIN_ID).
C17_GasPriceAndChainId ==
    \A i \in DOMAIN outcomes :
      IsOk(outcomes[i].res) =>
        /\ outcomes[i].res.val.gas_price = None
        /\ outcomes[i].res.val.chain_id = Some(CHAIN_ID)

\* C18: a translation of a transaction that carries a signature (InvokeV0,
\* InvokeV1, Declare, DeployAccount) succeeds only with a signature of three
\* elements or more, and then r, s, v are its elements 0, 1, 2; with fewer
\* than three elements the translation returns an error.
C18_SignatureSlots ==
    \A i \in DOMAIN outcomes :
      outcomes[i].tx.kind \in {"InvokeV0", "InvokeV1", "Declare", "DeployAccount"} =>
        /\ Len(outcomes[i].tx.signature) < 3 => IsErr(outcomes[i].res)
        /\ IsOk(outcomes[i].res) =>
             /\ Len(outcomes[i].tx.signature) >= 3
             /\ outcomes[i].res.val.r = outcomes[i].tx.signature[1]
             /\ outcomes[i].res.val.s = outcomes[i].tx.signature[2]
             /\ outcomes[i].res.val.v = outcomes[i].tx.signature[3]

\* An InvokeV1 of a Kakarot account with a signature of one element: the
\* class hash lookup succeeded and the translation failed.
C18_Witness ==
    /\ Returned("starknet_tx_into_eth_tx")
    /\ req.tx.kind = "InvokeV1"
    /\ req.tx.signature = <<31>>
    /\ log[1].answer = Ok(KAKAROT_CONTRACT_ACCOUNT_CLASS_HASH)
    /\ IsErr(result)
    /\ result.kind = "OtherError"
    /\ result.msg # NotKakarot.msg

\* The positions in the log of the get_class_hash_at calls.
C19_ClassHashCalls == {i \in DOMAIN log : log[i].method = "get_class_hash_at"}

\* C19: a translation of an InvokeV0, InvokeV1, L1Handler or Declare issues
\* one get_class_hash_at call, first, at the latest block, for the
\* transaction's contract or sender address, and returns the call's error
\* when it fails; a translation of a Deploy or DeployAccount issues no
\* remote call.
C19_ClassHashResolution ==
    Returned("starknet_tx_into_eth_tx") =>
      /\ req.tx.kind \in {"InvokeV0", "InvokeV1", "L1Handler", "Declare"} =>
           /\ C19_ClassHashCalls = {1}
           /\ log[1].block_id = BlockIdOf("Latest", 0)
           /\ log[1].arg = req.tx.address
           /\ IsErr(log[1].answer) => (result = log[1].answer /\ Len(log) = 1)
      /\ req.tx.kind \in {"Deploy", "DeployAccount"} => log = <<>>

\* The class hash lookup of a Declare failed, and so did the translation.
C19_Witness ==
    /\ Returned("starknet_tx_into_eth_tx")
    /\ req.tx.kind = "Declare"
    /\ Len(req.tx.signature) = 3
    /\ Len(log) = 1
    /\ IsErr(log[1].answer)
    /\ IsErr(result)
    /\ result.kind = "RequestError"

\* C20: a translation of an L1Handler whose class hash lookup succeeded
\* issues one get_evm_address call on the contract address at the latest
\* block; `from` is the low 20 bytes of the first element of its result, and
\* a failed call or an empty result fails the translation.  A translation of
\* an InvokeV0, InvokeV1 or Declare issues no get_evm_address call and `from`
\* is the low 20 bytes of the contract or sender address.
C20_SourceOfFrom ==
    Returned("starknet_tx_into_eth_tx") =>
      /\ (req.tx.kind = "L1Handler" /\ IsOk(log[1].answer)) =>
           /\ Len(log) = 2
           /\ log[2].method = "call"
           /\ log[2].selector = GET_EVM_ADDRESS
           /\ log[2].arg = req.tx.address
           /\ log[2].block_id = BlockIdOf("Latest", 0)
           /\ (IsErr(log[2].answer) \/ log[2].answer.val = <<>>) => IsErr(result)
           /\ IsErr(log[2].answer) => result = log[2].answer
           /\ IsOk(result) => result.val.from = Bytes20(log[2].answer.val[1])
      /\ req.tx.kind \in {"InvokeV0", "InvokeV1", "Declare"} =>
           /\ \A i \in DOMAIN log : log[i].selector # GET_EVM_ADDRESS
           /\ IsOk(result) => result.val.from = Bytes20(req.tx.address)

\* The get_evm_address call of an L1Handler of a Kakarot contract gave an
\* empty result, and the translation failed.
C20_Witness ==
    /\ Returned("starknet_tx_into_eth_tx")
    /\ req.tx.kind = "L1Handler"
    /\ req.tx.address = 1048585
    /\ Len(log) = 2
    /\ log[1].answer = Ok(KAKAROT_CONTRACT_ACCOUNT_CLASS_HASH)
    /\ log[2].answer = Ok(<<>>)
    /\ IsErr(result)
    /\ result.kind = "OtherError"

\* The step issues a remote call that fails on the transport.
C21_FailedCall ==
    /\ Len(log') = Len(log) + 1
    /\ IsErr(log'[Len(log')].answer)

\* What the function that awaited the failed call does in the same step: it
\* returns the error to its caller, and the caller returns it, degrades it
\* or goes on to its next piece of work.
C21_ReturnsAtOnce ==
    LET error == log'[Len(log')].answer
    IN  IF pc = "receipt_evm_address"
        THEN \* safe_get_evm_address inside get_transaction_receipt: the fallback
             /\ pc' = "tx_begin"
             /\ tx' = tx
             /\ res_receipt'.contract_address = Some(Bytes20(tx.address))
        ELSE IF req'.op = "safe_get_evm_address"
        THEN /\ pc' = "done"
             /\ result' = [tag |-> "Value", val |-> Bytes20(req'.starknet_address)]
        ELSE IF pc \in {"tx_begin", "tx_l1_from"} /\ caller = "filter"
        THEN \* filter_transactions drops the transaction and takes the next one
             /\ outcomes' = Append(outcomes, [tx |-> tx, res |-> error])
             /\ transactions_vec' = transactions_vec
             /\ IF queue = <<>>
                THEN pc' = "done" /\ IsOk(result')
                ELSE pc' = "tx_begin" /\ tx' = Head(queue) /\ queue' = Tail(queue)
        ELSE IF pc \in {"tx_begin", "tx_l1_from"} /\ caller = "receipt"
        THEN \* get_transaction_receipt answers a failed translation with Ok(None)
             /\ outcomes' = Append(outcomes, [tx |-> tx, res |-> error])
             /\ pc' = "done"
             /\ result' = Ok(None)
        ELSE /\ pc' = "done"
             /\ result' = error

\* C21: a remote call that fails is not made again: in the step in which it
\* fails, the function that awaited it returns the error to its caller with
\* no further remote call.  The operation returns that error, but for
\* safe_get_evm_address (the truncated address), filter_transactions and the
\* block conversions around it (the transaction is dropped and the next one
\* translated) and get_transaction_receipt (Ok(None) for a failed
\* translation, the truncated address for a failed get_evm_address).
C21_NoRetries == [][C21_FailedCall => C21_ReturnsAtOnce]_vars

\* C21 as stated: a call that failed is never in the log again, and an
\* operation that returns after a failed call returns an error.
C21_NoRetriesAsClaimed ==
    /\ \A i, j \in DOMAIN log :
         (i < j /\ IsErr(log[i].answer)) =>
           [log[j] EXCEPT !.answer = NoResult] # [log[i] EXCEPT !.answer = NoResult]
    /\ (pc = "done" /\ \E i \in DOMAIN log : IsErr(log[i].answer)) => IsErr(result)

\* filter_transactions on two transactions: the class hash lookup of the
\* first failed, the second was translated, and the call returned Ok with
\* the second alone after two remote calls.
C21_Witness ==
    /\ Returned("filter_transactions")
    /\ Len(req.initial_transactions) = 2
    /\ Len(log) = 2
    /\ IsErr(log[1].answer)
    /\ log[1].arg = req.initial_transactions[1].address
    /\ log[2].arg = req.initial_transactions[2].address
    /\ IsOk(log[2].answer)
    /\ IsOk(result)
    /\ Len(result.val.list) = 1


\* The four operations that are said to fail hard.
C22_HardOps == {"get_code", "call_view", "compute_starknet_address", "submit_starknet_transaction"}

\* C22 as stated: in get_code, call_view, compute_starknet_address and
\* submit_starknet_transaction a transport failure of a remote call is the
\* last remote call and is what the operation returns, and an empty or
\* malformed call result makes the operation return an OtherError: none of
\* the four returns Ok after such a failure.
C22_HardErrors ==
    (pc = "done" /\ req.op \in C22_HardOps) =>
      /\ \A i \in DOMAIN log :
           IsErr(log[i].answer) => (i = Len(log) /\ result = log[i].answer)
      /\ (req.op \in {"get_code", "compute_starknet_address"} /\ Len(log) >= 1
            /\ log[1].answer = Ok(<<>>)) =>
           (IsErr(result) /\ result.kind = "OtherError")
      /\ (req.op = "call_view" /\ Len(log) = 1 /\ IsOk(log[1].answer)
            /\ (IsErr(segmented_result)
                  \/ ~IsSome(Get(segmented_result.val, 6))
                  \/ Get(segmented_result.val, 6)[1].tag # "FeltArray")) =>
           (IsErr(result) /\ result.kind = "OtherError")

\* A call that converts its Ethereum address to a field element has returned.
C23_Converted ==
    pc = "done" /\ req.op \in {"compute_starknet_address", "call_view", "get_code"}

\* Numbers whose 20-byte forms cover low, middle and high bytes of an address.
C23_AddressValues == {k * 4099 : k \in 0..255}

\* C23: the conversion of a 20-byte Ethereum address to a field element, made
\* before every contract call, always succeeds (the call is issued, with the
\* field element first in its calldata), and bytes [12..32] of that field
\* element's 32-byte big-endian form, which is what get_evm_address returns
\* for it, are the address again.
C23_AddressRoundTrip ==
    C23_Converted =>
      /\ Len(log) >= 1
      /\ Len(req.ethereum_address) = 20
      /\ AddressToFelt(req.ethereum_address) = Ok(log[1].calldata[1])
      /\ Len(ToBytesBE(log[1].calldata[1])) = 32
      /\ GetEvmAddressResult(Ok(<<log[1].calldata[1]>>)) = Ok(req.ethereum_address)
      /\ Returned("compute_starknet_address") =>
           \A v \in C23_AddressValues :
             LET a == Low20(ToBytesBE(v))
             IN  /\ IsOk(AddressToFelt(a))
                 /\ GetEvmAddressResult(Ok(<<AddressToFelt(a).val>>)) = Ok(a)

\* An address with a byte set above its low eight bytes went round.
C23_Witness ==
    /\ Returned("compute_starknet_address")
    /\ \E i \in 1..12 : req.ethereum_address[i] # 0
    /\ Len(log) = 1
    /\ IsOk(result)
    /\ GetEvmAddressResult(Ok(<<log[1].calldata[1]>>)) = Ok(req.ethereum_address)

\* The remote calls of a get_transaction_receipt on a transaction of kind
\* `kind` at address `address`, in the order of the source: (method, callee,
\* selector, block).
C24_Order(kind, address) ==
    LET hash == hash_to_field_element(req.hash)
        hash_felt == IF IsOk(hash) THEN hash.val ELSE 0
    IN  <<<<"get_transaction_receipt", hash_felt, "", BlockIdOf("None", 0)>>,
          <<"get_transaction_by_hash", hash_felt, "", BlockIdOf("None", 0)>>>>
        \o (IF kind = "InvokeV0"
            THEN <<<<"call", address, GET_EVM_ADDRESS, Latest>>>> ELSE <<>>)
        \o (IF kind \notin {"Deploy", "DeployAccount"}
            THEN <<<<"get_class_hash_at", address, "", Latest>>>> ELSE <<>>)

\* The remote calls issued so far, as (method, callee, selector, block).
C24_Issued ==
    [i \in DOMAIN log |-> <<log[i].method, log[i].arg, log[i].selector, log[i].block_id>>]

C25_Converted ==
    /\ pc = "done"
    /\ \/ req.op = "starknet_block_to_eth_block" /\ req.body = "txs"
       \/ /\ req.op = "get_eth_block_from_starknet_block"
          /\ req.hydrated_tx
          /\ IsOk(log[1].answer)

\* The transactions listed in the body of the converted block.
C25_Listed == result.val.inner.transactions.list

\* C25: every transaction in the full-transaction body of a converted block
\* carries the block's own position: block_hash = header.hash and
\* block_number = header.number, the hash and number of the block served,
\* for a confirmed block, and None and None for a pending block.
C25_BodyCarriesBlockPosition ==
    C25_Converted =>
      /\ IsOk(result)
      /\ result.val.inner.transactions.tag = "Full"
      /\ \A i \in DOMAIN C25_Listed :
           /\ C25_Listed[i].block_hash = HeaderOf(result).hash
           /\ C25_Listed[i].block_number = HeaderOf(result).number
           /\ IF blk.pending
              THEN /\ C25_Listed[i].block_hash = None
                   /\ C25_Listed[i].block_number = None
              ELSE /\ C25_Listed[i].block_hash = Some(Bytes32(blk.block_hash))
                   /\ C25_Listed[i].block_number = Some(blk.block_number)

\* A confirmed block with two transactions, both listed at block 9.
C25_Witness ==
    /\ Returned("starknet_block_to_eth_block")
    /\ req.body = "txs"
    /\ ~req.block.pending
    /\ IsOk(result)
    /\ Len(C25_Listed) = 2
    /\ C25_Listed[1].block_number = Some(9)
    /\ C25_Listed[2].block_hash = Some(Bytes32(1048677))

C27_HashesView ==
    [req.block EXCEPT
       !.transactions = [i \in 1..Len(req.block.transactions) |->
                           req.block.transactions[i].transaction_hash]]

\* The hash-only body of that block, converted.
C27_HashOnlyBody == BlockWithTxHashes(C27_HashesView).val.inner.transactions.list

\* C27: for one confirmed block, the count block_transaction_count_by_number
\* and block_transaction_count_by_hash return is the length of the block's
\* hash-only body, the number of transactions the node lists, and is at
\* least the length of its full-transaction body, which the gate filters;
\* it is greater whenever a transaction of the block fails translation.
C27_CountCoversFullBody ==
    (Returned("starknet_block_to_eth_block") /\ req.body = "txs" /\ ~req.block.pending) =>
      LET by_number == CountByNumberResult(Ok(C27_HashesView))
          by_hash == CountByHashResult(Ok(C27_HashesView))
          full == result.val.inner.transactions.list
      IN  /\ IsOk(by_number) /\ IsSome(by_number.val)
          /\ by_hash = by_number
          /\ by_number.val[1] = Len(C27_HashOnlyBody)
          /\ by_number.val[1] = Len(req.block.transactions)
          /\ by_number.val[1] >= Len(full)
          /\ (\E i \in DOMAIN outcomes : IsErr(outcomes[i].res)) =>
               by_number.val[1] > Len(full)
          /\ (\A i \in DOMAIN outcomes : IsOk(outcomes[i].res)) =>
               by_number.val[1] = Len(full)

\* A confirmed block of two transactions, one of which fails translation:
\* the count is 2 and the full body lists one.
C27_Witness ==
    /\ Returned("starknet_block_to_eth_block")
    /\ req.body = "txs"
    /\ ~req.block.pending
    /\ Len(req.block.transactions) = 2
    /\ IsErr(outcomes[1].res)
    /\ IsOk(outcomes[2].res)
    /\ CountByNumberResult(Ok(C27_HashesView)) = Ok(Some(2))
    /\ Len(C27_HashOnlyBody) = 2
    /\ Len(result.val.inner.transactions.list) = 1

=============================================================================
